---- MODULE Spec2Model ----
(***************************************************************************)
(* Verification model of the CiteOrDie backend: the upload / idempotency   *)
(* endpoint, the dual-store task tracker, the background pipeline, the     *)
(* LangGraph workflow (parallel parsers, two barriers, two fan-outs), the  *)
(* progress helper, the PageIndex completion wrappers and the progress     *)
(* stream.                                                                 *)
(***************************************************************************)
EXTENDS Integers, Sequences, FiniteSets, TLC

(***************************************************************************)
(* Bounds of the model.                                                    *)
(***************************************************************************)
MaxTasks == 2
MaxFaults == 1

TaskIds == 1..MaxTasks
\* SHA-256 digests of the uploaded files: two different documents.
Hashes == {"h1", "h2"}
None == "None"
NoneP == 0 - 1

VARIABLES
    task_cache,     \* task_tracker._task_cache: task_id -> entry
    db_tasks,       \* table tasks: task_id -> row
    db_logs,        \* table task_logs: task_id -> it holds rows of this task
    db_sections,    \* table sections: task_id -> it holds rows of this task
    db_clauses,     \* table clauses: task_id -> it holds rows of this task
    next_uuid,      \* the next fresh task id (uuid.uuid4())
    clock,          \* datetime.now() as a logical clock for completed_at
    bg,             \* per task: position of the background job
    run_exc,        \* per task: the exception the finished run met, or "none"
    faults,         \* relational writes that have failed so far
    file_of,        \* per task: the hash of the file uploaded for it
    last_response,  \* the response of the last POST /analyze, with its request
    deleted         \* task ids for which DELETE /task/{id} has succeeded

apiVars == <<task_cache, db_tasks, db_logs, db_sections, db_clauses, next_uuid,
             clock, bg, run_exc, faults, file_of, last_response,
             deleted>>

(***************************************************************************)
(* Task tracker (services/task_tracker.py) and repository (crud.py).       *)
(***************************************************************************)

\* The cache entry create_task stores.
NewCacheEntry ==
    [status |-> "pending", progress |-> 0, message |-> "Task created",
     result |-> None, start_time |-> FALSE]

\* The row TaskRepository.create_task inserts.
NewTaskRow(h) ==
    [file_hash |-> h, status |-> "pending", progress |-> 0,
     current_message |-> None, document_tree_json |-> FALSE,
     started_at |-> FALSE, completed_at |-> 0]

\* A buggy variant of the in-memory update: the status is assigned without
\* the "if status:" guard.
CacheUpdateUnguarded(e, status, progress, message, result) ==
    [status |-> status,
     progress |-> IF progress # NoneP THEN progress ELSE e.progress,
     message |-> IF message # None THEN message ELSE e.message,
     result |-> IF result # None THEN result ELSE e.result,
     start_time |-> e.start_time \/ status = "running"]

\* The in-memory part of TaskTracker.update_task.
CacheUpdate(e, status, progress, message, result) ==
    [status |-> IF status # None THEN status ELSE e.status,
     progress |-> IF progress # NoneP THEN progress ELSE e.progress,
     message |-> IF message # None THEN message ELSE e.message,
     result |-> IF result # None THEN result ELSE e.result,
     start_time |-> e.start_time \/ status = "running"]

\* TaskRepository.update_task_status on an existing row.
RowUpdate(r, status, progress, message, tree, now) ==
    [file_hash |-> r.file_hash,
     status |-> IF status # None THEN status ELSE r.status,
     progress |-> IF progress # NoneP THEN progress ELSE r.progress,
     current_message |-> IF message # None THEN message ELSE r.current_message,
     document_tree_json |-> r.document_tree_json \/ tree,
     started_at |-> r.started_at \/ status = "running",
     completed_at |-> IF status \in {"completed", "failed"} THEN now
                      ELSE r.completed_at]

\* TaskTracker.update_task: a cache miss returns early; otherwise the entry
\* is updated and written through.  dbOk = FALSE is a relational write that
\* raises: it is caught and logged, the cache keeps the change.
update_task(t, status, progress, message, result, tree, dbOk) ==
    IF t \notin DOMAIN task_cache
    THEN UNCHANGED <<task_cache, db_tasks, db_logs, clock>>
    ELSE /\ task_cache' = [task_cache EXCEPT
                ![t] = CacheUpdate(@, status, progress, message, result)]
         /\ IF dbOk
            THEN /\ db_tasks' = IF t \in DOMAIN db_tasks
                                THEN [db_tasks EXCEPT ![t] =
                                        RowUpdate(@, status, progress, message,
                                                  tree, clock + 1)]
                                ELSE db_tasks
                 /\ clock' = IF t \in DOMAIN db_tasks
                                /\ status \in {"completed", "failed"}
                             THEN clock + 1 ELSE clock
                 /\ db_logs' = IF message # None
                               THEN [db_logs EXCEPT ![t] = TRUE]
                               ELSE db_logs
            ELSE UNCHANGED <<db_tasks, db_logs, clock>>

\* TaskRepository.find_by_file_hash: the most recently completed task with
\* this hash, else the most recently created one, else nothing.  The result
\* is a set of at most one task id (Optional[Task]).
find_by_file_hash(h) ==
    LET same == {t \in DOMAIN db_tasks : db_tasks[t].file_hash = h}
        completed == {t \in same : db_tasks[t].status = "completed"}
    IN  IF completed # {}
        THEN {CHOOSE t \in completed : \A u \in completed :
                  db_tasks[u].completed_at <= db_tasks[t].completed_at}
        ELSE IF same # {}
        THEN {CHOOSE t \in same : \A u \in same : u <= t}
        ELSE {}

\* The cache after TaskTracker.get_task(t): a miss is rehydrated from the
\* relational row when there is one.  load_completed_task does the same.
get_task(cache, t) ==
    IF t \in DOMAIN cache THEN cache
    ELSE IF t \in DOMAIN db_tasks
    THEN cache @@ (t :> [status |-> db_tasks[t].status,
                         progress |-> db_tasks[t].progress,
                         message |-> IF db_tasks[t].current_message = None
                                     THEN ""
                                     ELSE db_tasks[t].current_message,
                         result |-> None,
                         start_time |-> db_tasks[t].started_at])
    ELSE cache

load_completed_task(cache, t) == get_task(cache, t)

(***************************************************************************)
(* POST /analyze (api/analysis_endpoints.py, analyze_document).            *)
(***************************************************************************)

\* A relational write of the tracker's write-through path fails: only when
\* the tracker gets as far as writing.
WriteFails(t, dbOk) == ~dbOk /\ t \in DOMAIN task_cache

\* Tasks uploaded with this file hash whose analysis has not reached
\* completed or failed (the tracker's in-memory status is authoritative).
StillRunning(h) ==
    {t \in DOMAIN task_cache :
        file_of[t] = h /\ task_cache[t].status \in {"pending", "running"}}

\* The test of line 326: an existing task is reused when its row says running.
ReusesRunning(row) == row.status = "running"

\* TaskTracker.create_task with a fresh uuid: the cache entry, then the row.
\* createOk = FALSE is the relational insert raising (caught and logged).
create_task(t, h, createOk) ==
    /\ task_cache' = [x \in DOMAIN task_cache \cup {t} |->
                        IF x = t THEN NewCacheEntry ELSE task_cache[x]]
    /\ db_tasks' = IF createOk
                   THEN [x \in DOMAIN db_tasks \cup {t} |->
                           IF x = t THEN NewTaskRow(h) ELSE db_tasks[x]]
                   ELSE db_tasks

\* The request handler from the hash computation to the return statement; it
\* has no await in between, so it is one step of the event loop.
analyze_document(h, createOk) ==
    LET existing == find_by_file_hash(h)
    IN  IF existing # {} /\ \A t \in existing : db_tasks[t].status = "completed"
        THEN \E t \in existing :
             /\ createOk
             /\ task_cache' = load_completed_task(get_task(task_cache, t), t)
             /\ last_response' = [task_id |-> t, reused |-> TRUE]
             /\ UNCHANGED <<db_tasks, db_logs, db_sections, db_clauses,
                            next_uuid, clock, bg, run_exc, faults,
                            file_of, deleted>>
        ELSE IF existing # {} /\ \A t \in existing : ReusesRunning(db_tasks[t])
        THEN \E t \in existing :
             /\ createOk
             /\ last_response' = [task_id |-> t, reused |-> TRUE]
             /\ UNCHANGED <<task_cache, db_tasks, db_logs, db_sections,
                            db_clauses, next_uuid, clock, bg, run_exc, faults,
                            file_of, deleted>>
        ELSE /\ next_uuid <= MaxTasks
             /\ createOk \/ faults < MaxFaults
             /\ create_task(next_uuid, h, createOk)
             /\ faults' = IF createOk THEN faults ELSE faults + 1
             /\ file_of' = [file_of EXCEPT ![next_uuid] = h]
             /\ bg' = [bg EXCEPT ![next_uuid] = "scheduled"]
             /\ last_response' = [task_id |-> next_uuid, reused |-> FALSE]
             /\ next_uuid' = next_uuid + 1
             /\ UNCHANGED <<db_logs, db_sections, db_clauses, clock, run_exc,
                            deleted>>

\* oks: the outcomes a relational write of the tracker may have in this step.
Analyze(oks) == \E h \in Hashes, createOk \in oks : analyze_document(h, createOk)

(***************************************************************************)
(* The background job (_run_analysis_pipeline).                            *)
(***************************************************************************)

\* Lines 49-75: status running, then graph.invoke is handed to the executor.
PipelineStart(oks) ==
    \E t \in TaskIds, dbOk \in oks :
    /\ bg[t] = "scheduled"
    /\ dbOk \/ faults < MaxFaults
    /\ update_task(t, "running", 0, "Starting analysis...", None, FALSE, dbOk)
    /\ faults' = IF WriteFails(t, dbOk) THEN faults + 1 ELSE faults
    /\ bg' = [bg EXCEPT ![t] = "invoking"]
    /\ UNCHANGED <<db_sections, db_clauses, next_uuid, run_exc,
                   file_of, last_response, deleted>>

\* The message of every tracker update a workflow node issues.
WorkerMessage == "progress"

\* The tracker updates a workflow node issues from a worker thread while
\* graph.invoke runs: log_step (no progress) and TaskTracker.log_progress
\* (clause_extractor.py:61).  None of them passes a status.
WorkerProgress == {NoneP, 50}

WorkerUpdate(oks) ==
    \E t \in TaskIds, p \in WorkerProgress, dbOk \in oks :
    /\ bg[t] = "invoking"
    /\ dbOk \/ faults < MaxFaults
    /\ update_task(t, None, p, WorkerMessage, None, FALSE, dbOk)
    /\ faults' = IF WriteFails(t, dbOk) THEN faults + 1 ELSE faults
    /\ UNCHANGED <<db_sections, db_clauses, next_uuid, bg, run_exc, file_of,
                   last_response, deleted>>

\* What graph.invoke hands back: a final state without error_message, a final
\* state with error_message (a parser failed and the router ended the run),
\* or an exception.
WorkflowResults == {"ok", "error_message", "raised"}

\* A buggy variant of the handler of line 120: only the raise of line 78 is
\* caught.
CatchesOnlyOwnRaise(exc) == exc = "error_message"

\* Line 120, "except Exception": every exception kind is caught.
Catches(exc) == exc \in {"error_message", "raised", "persist"}

\* Lines 75-126, from the return of graph.invoke: one step of the event loop.
\* r is what graph.invoke returned (one of results), clauses whether its
\* final_matrix holds any clause (the tree always has a leaf), persist where
\* _persist_analysis_results fails, if it does.
PipelineFinish(oks, results) ==
    \E t \in TaskIds, r \in results, clauses \in BOOLEAN,
       persist \in {"ok", "sections_fail", "clauses_fail"}, dbOk \in oks :
    /\ bg[t] = "invoking"
    /\ dbOk \/ faults < MaxFaults
    /\ r # "ok" => (persist = "ok" /\ ~clauses)
    /\ LET exc == IF r # "ok" THEN r
                  ELSE IF persist # "ok" THEN "persist" ELSE "none"
       IN  /\ db_sections' = IF r = "ok" /\ persist # "sections_fail"
                             THEN [db_sections EXCEPT ![t] = TRUE]
                             ELSE db_sections
           /\ db_clauses' = IF r = "ok" /\ persist = "ok"
                            THEN [db_clauses EXCEPT ![t] = @ \/ clauses]
                            ELSE db_clauses
           /\ run_exc' = [run_exc EXCEPT ![t] = exc]
           /\ IF exc = "none"
              THEN /\ update_task(t, "completed", 100, "Analysis complete",
                                  "result", TRUE, dbOk)
                   /\ faults' = IF WriteFails(t, dbOk) THEN faults + 1
                                ELSE faults
                   /\ bg' = [bg EXCEPT ![t] = "done"]
              ELSE IF Catches(exc)
              THEN /\ update_task(t, "failed", 0, "Analysis failed", None,
                                  FALSE, dbOk)
                   /\ faults' = IF WriteFails(t, dbOk) THEN faults + 1
                                ELSE faults
                   /\ bg' = [bg EXCEPT ![t] = "done"]
              ELSE /\ bg' = [bg EXCEPT ![t] = "crashed"]
                   /\ dbOk
                   /\ UNCHANGED <<task_cache, db_tasks, db_logs, clock, faults>>
    /\ UNCHANGED <<next_uuid, file_of, last_response, deleted>>

(***************************************************************************)
(* DELETE /task/{task_id} (delete_task).                                   *)
(***************************************************************************)

\* The endpoint for a task that has a row: TaskRepository.delete_task removes
\* the row and, by the ORM cascade, the rows of logs, sections and clauses
\* that carry its task id; TaskTracker.delete_task evicts the cache entry.
DeleteTask ==
    \E t \in TaskIds :
    /\ t \in DOMAIN db_tasks
    /\ db_tasks' = [x \in DOMAIN db_tasks \ {t} |-> db_tasks[x]]
    /\ db_logs' = [db_logs EXCEPT ![t] = FALSE]
    /\ db_sections' = [db_sections EXCEPT ![t] = FALSE]
    /\ db_clauses' = [db_clauses EXCEPT ![t] = FALSE]
    /\ task_cache' = [x \in DOMAIN task_cache \ {t} |-> task_cache[x]]
    /\ deleted' = deleted \cup {t}
    /\ UNCHANGED <<next_uuid, clock, bg, run_exc, faults, file_of,
                   last_response>>

(***************************************************************************)
(* The document tree (domain/schema.py).                                   *)
(***************************************************************************)
MaxNodes == 5

\* A document tree is the sequence of its nodes' parents, the nodes numbered
\* in pre-order: node i is a child of tree[i], and of no node (a root of
\* PageIndexDocument.structure) when tree[i] = 0.
RECURSIVE PathToRoot(_, _)
PathToRoot(tree, i) ==
    IF i = 0 THEN {} ELSE {i} \cup PathToRoot(tree, tree[i])

IsTree(tree) ==
    \A i \in DOMAIN tree :
        /\ tree[i] < i
        /\ i > 1 => (tree[i] = 0 \/ tree[i] \in PathToRoot(tree, i - 1))

Trees ==
    UNION {{tree \in [1..n -> 0..(n - 1)] : IsTree(tree)} : n \in 1..MaxNodes}

\* pageindex_document is None.
NoDocument == <<>>

\* PageIndexNode.nodes: the children of node i; the roots for i = 0.
nodes(tree, i) == {c \in DOMAIN tree : tree[c] = i}

is_leaf(tree, i) == nodes(tree, i) = {}

RECURSIVE get_leaf_nodes(_, _)
get_leaf_nodes(tree, i) ==
    IF is_leaf(tree, i) THEN {i}
    ELSE UNION {get_leaf_nodes(tree, c) : c \in nodes(tree, i)}

RECURSIVE get_all_nodes(_, _)
get_all_nodes(tree, i) ==
    {i} \cup UNION {get_all_nodes(tree, c) : c \in nodes(tree, i)}

get_all_leaf_nodes(tree) ==
    UNION {get_leaf_nodes(tree, root) : root \in nodes(tree, 0)}

(***************************************************************************)
(* The compiled workflow (domain/workflow.py) and its execution in         *)
(* supersteps: the tasks of a superstep run in parallel, and the next      *)
(* superstep is planned from what they triggered and sent.                 *)
(***************************************************************************)
VARIABLES
    wf,                 \* graph.invoke: "idle", "running", "end", "raised"
    wf_task_id,         \* state["task_id"] of the run
    wf_tasks,           \* tasks of the current superstep that still run
    wf_next,            \* nodes triggered for the next superstep
    wf_sends,           \* Send tasks queued for the next superstep
    pc,                 \* per node that reports progress: position in it
    cur,                \* per such node: "current" read by update_progress
    pageindex_document, \* state["pageindex_document"]
    error_message,      \* state["error_message"]: the parsers that failed
    filled,             \* nodes whose text_filler task has returned
    extracted,          \* leaves whose clause_extractor task has returned
    fan_calls,          \* per fan-out target: calls of its router so far
    sent,               \* every Send task dispatched so far
    node_ids,           \* per node of the tree: PageIndexNode.node_id
    clauses,            \* state["clauses"]
    returned,           \* per leaf: the clauses its clause_extractor returned
    final_matrix,       \* state["final_matrix"]
    written             \* the writes of the workers to outline nodes so far:
                        \* [by |-> the worker's task, node |-> the node]

\* The outline and clause data of a run.
matrixVars == <<node_ids, clauses, returned, final_matrix, written>>

flowVars == <<wf, wf_task_id, wf_tasks, wf_next, wf_sends, pc, cur,
              pageindex_document, error_message, filled, extracted,
              fan_calls, sent, matrixVars>>

\* The variables of the API layer a workflow node never writes.
apiRest == <<db_sections, db_clauses, next_uuid, bg, run_exc, faults, file_of,
             last_response, deleted>>

\* A task of a superstep: a node, the tree node a Send carries (0 for a
\* plain trigger) and the router call that sent it (0 for a plain trigger).
Task(node, arg, k) == [node |-> node, arg |-> arg, k |-> k]

\* add_edge(START, ...), lines 74-75.
StartNodes == {"structure_parser", "mineru_parser"}

\* A buggy wiring: the aggregator also hangs off parser_sync by a plain
\* edge, past the router.
EdgesPastTheRouter ==
    {<<"structure_parser", "parser_sync">>, <<"mineru_parser", "parser_sync">>,
     <<"parser_sync", "clause_aggregator">>,
     <<"text_filler", "text_fill_sync">>,
     <<"clause_extractor", "clause_aggregator">>,
     <<"clause_aggregator", "clause_locator">>}

\* add_edge between nodes, lines 78-79, 85, 91-92 (the edge to END triggers
\* nothing).
Edges ==
    {<<"structure_parser", "parser_sync">>, <<"mineru_parser", "parser_sync">>,
     <<"text_filler", "text_fill_sync">>,
     <<"clause_extractor", "clause_aggregator">>,
     <<"clause_aggregator", "clause_locator">>}

\* A buggy wiring: no text_fill_sync barrier, the clause-extractor router
\* hangs off text_filler itself.
ConditionalEdgesWithoutBarrier ==
    {<<"parser_sync", "text_filler">>, <<"text_filler", "clause_extractor">>}

\* add_conditional_edges, lines 82 and 88: <<source, target of the router>>.
ConditionalEdges ==
    {<<"parser_sync", "text_filler">>, <<"text_fill_sync", "clause_extractor">>}

\* _fan_out_text_fillers: END after a parser error or without a document,
\* else one Send per node of the tree.  The result is the set of nodes sent.
fan_out_text_fillers ==
    IF error_message # {} \/ pageindex_document = NoDocument THEN {}
    ELSE UNION {get_all_nodes(pageindex_document, root) :
                    root \in nodes(pageindex_document, 0)}

\* _fan_out_clause_extractors: one Send per leaf of the tree.
fan_out_clause_extractors ==
    IF pageindex_document = NoDocument THEN {}
    ELSE get_all_leaf_nodes(pageindex_document)

Router(target) ==
    IF target = "text_filler" THEN fan_out_text_fillers
    ELSE fan_out_clause_extractors

\* A buggy engine: the next superstep starts while tasks still run.
SuperstepCompleteEarly(tasks) == TRUE

\* The superstep is complete when every task of it has returned.
SuperstepComplete(tasks) == tasks = {}

\* A task returns: its node's edges trigger their targets for the next
\* superstep, and the routers attached to its node run and queue their Sends.
Finish(task) ==
    LET routed == {e[2] : e \in {c \in ConditionalEdges : c[1] = task.node}}
        new == UNION {{Task(r, a, fan_calls[r] + 1) : a \in Router(r)} :
                          r \in routed}
    IN  /\ wf_tasks' = wf_tasks \ {task}
        /\ wf_next' = wf_next \cup {e[2] : e \in {d \in Edges : d[1] = task.node}}
        /\ fan_calls' = [r \in DOMAIN fan_calls |->
                            IF r \in routed THEN fan_calls[r] + 1
                            ELSE fan_calls[r]]
        /\ wf_sends' = wf_sends \cup new
        /\ sent' = sent \cup new

\* The position of a node function that has just been entered, and of one
\* that does not run: i is the next update_progress call of the node, ph the
\* phase of that call.
Entered == [i |-> 1, ph |-> "read"]
NotRunning == [i |-> 0, ph |-> "idle"]

\* The next superstep: the triggered nodes and the queued Sends; the run ends
\* when there are none.
Advance ==
    LET new == {Task(n, 0, 0) : n \in wf_next} \cup wf_sends
    IN  /\ wf = "running"
        /\ SuperstepComplete(wf_tasks)
        /\ new # {} \/ wf_tasks = {}
        /\ wf' = IF new = {} THEN "end" ELSE "running"
        /\ wf_tasks' = wf_tasks \cup new
        /\ wf_next' = {}
        /\ wf_sends' = {}
        /\ pc' = [n \in DOMAIN pc |->
                    IF Task(n, 0, 0) \in new THEN Entered ELSE pc[n]]
        /\ UNCHANGED <<wf_task_id, cur, pageindex_document, error_message,
                       filled, extracted, fan_calls, sent>>
        /\ UNCHANGED apiVars
        /\ UNCHANGED matrixVars

(***************************************************************************)
(* Progress reporting of the nodes (tools/progress_helper.py).             *)
(***************************************************************************)

\* The update_progress calls of a node function, in program order:
\* structure_parser.py 40, 50, 99, 104; mineru_parser.py 39, 48;
\* workflow.py 142.
Targets ==
    [structure_parser |-> <<5, 8, 12, 15>>,
     mineru_parser |-> <<5, 10>>,
     parser_sync |-> <<20>>]

\* The monotonic guard of update_progress, lines 37-38.
Clamp(progress, current) == IF progress < current THEN current ELSE progress

\* update_progress, lines 34-36: the node reads the task's current progress.
ProgressRead(n) ==
    /\ wf = "running"
    /\ Task(n, 0, 0) \in wf_tasks
    /\ pc[n].ph = "read"
    /\ task_cache' = get_task(task_cache, wf_task_id)
    /\ cur' = [cur EXCEPT ![n] = IF wf_task_id \in DOMAIN task_cache'
                                 THEN task_cache'[wf_task_id].progress
                                 ELSE NoneP]
    /\ pc' = [pc EXCEPT ![n].ph = "write"]
    /\ UNCHANGED <<wf, wf_task_id, wf_tasks, wf_next, wf_sends,
                   pageindex_document, error_message, filled, extracted,
                   fan_calls, sent>>
    /\ UNCHANGED <<db_tasks, db_logs, clock>>
    /\ UNCHANGED apiRest
    /\ UNCHANGED matrixVars

\* update_progress, lines 37-44, and the log_step calls that follow it: the
\* node writes the clamped value.  Between the read and this write other
\* threads run.
ProgressWrite(n) ==
    /\ wf = "running"
    /\ Task(n, 0, 0) \in wf_tasks
    /\ pc[n].ph = "write"
    /\ LET target == Targets[n][pc[n].i]
           progress == IF cur[n] = NoneP THEN target
                       ELSE Clamp(target, cur[n])
       IN  update_task(wf_task_id, None, progress, WorkerMessage, None, FALSE,
                       TRUE)
    /\ cur' = [cur EXCEPT ![n] = NoneP]
    /\ pc' = [pc EXCEPT ![n] = IF pc[n].i < Len(Targets[n])
                               THEN [i |-> pc[n].i + 1, ph |-> "read"]
                               ELSE [i |-> pc[n].i, ph |-> "return"]]
    /\ UNCHANGED <<wf, wf_task_id, wf_tasks, wf_next, wf_sends,
                   pageindex_document, error_message, filled, extracted,
                   fan_calls, sent>>
    /\ UNCHANGED apiRest
    /\ UNCHANGED matrixVars

(***************************************************************************)
(* Node ids, clauses and the clause matrix (pageindex/utils.py,            *)
(* domain/schema.py, components/clause_extractor.py and                    *)
(* components/clause_aggregator.py).  A string is the sequence of its      *)
(* characters.                                                             *)
(***************************************************************************)
MaxSections == 3
MaxClauses == 2

\* The characters node ids and matrix ids are made of, in code point order.
Alphabet ==
    <<"-", "0", "1", "2", "3", "4", "5", "6", "7", "8", "9",
      "C", "K", "L", "N", "O", "S", "U", "W">>

\* The rank of a character in the order Python compares strings by.
ord(c) == CHOOSE k \in 1..Len(Alphabet) : Alphabet[k] = c

\* str(n) of a natural number.
RECURSIVE str(_)
str(n) ==
    IF n < 10 THEN <<Alphabet[n + 2]>>
    ELSE str(n \div 10) \o <<Alphabet[(n % 10) + 2]>>

\* s.zfill(width), and the format specification 0{width}d on str(n).
RECURSIVE zfill(_, _)
zfill(s, width) == IF Len(s) >= width THEN s ELSE zfill(<<"0">> \o s, width)

\* a < b on strings.
RECURSIVE str_lt(_, _)
str_lt(a, b) ==
    IF b = <<>> THEN FALSE
    ELSE IF a = <<>> THEN TRUE
    ELSE IF Head(a) = Head(b) THEN str_lt(Tail(a), Tail(b))
    ELSE ord(Head(a)) < ord(Head(b))

\* s.strip() for the blank.
RECURSIVE strip(_)
strip(s) ==
    IF s = <<>> THEN s
    ELSE IF Head(s) = " " THEN strip(Tail(s))
    ELSE IF s[Len(s)] = " " THEN strip(SubSeq(s, 1, Len(s) - 1))
    ELSE s

\* An outline construction that gives every node the same id.
write_node_id_same(tree) == [i \in DOMAIN tree |-> zfill(str(0), 4)]

\* write_node_id: the nodes are numbered from 0 in pre-order, the number
\* zero-filled to four digits.
write_node_id(tree) == [i \in DOMAIN tree |-> zfill(str(i - 1), 4)]

\* The root structure_parser_node substitutes for an empty outline
\* (lines 66-76), and its node_id.
DefaultRoot == <<0>>
DefaultRootIds == <<str(0)>>

\* The outlines the parser can return with the node ids they carry.
Outlines ==
    {[tree |-> t, ids |-> write_node_id(t)] : t \in Trees}
        \cup {[tree |-> DefaultRoot, ids |-> DefaultRootIds]}

\* The outlines of at most MaxSections nodes.
SmallOutlines == {o \in Outlines : Len(o.tree) <= MaxSections}

\* node.node_id or "UNKNOWN" (clause_extractor.py 139-140); a missing
\* node_id is the empty sequence here.
section_id_of(id) ==
    IF id = <<>> THEN <<"U", "N", "K", "N", "O", "W", "N">> ELSE id

create_matrix_id(section_id, sequence) ==
    section_id \o <<"-", "C", "L", "S", "-">> \o zfill(str(sequence), 3)

\* The verbatim text the extraction model returns for the i-th clause of a
\* section: the same words in every section, with and without blanks
\* around them.
llm_text(i) == IF i % 2 = 1 THEN <<" ", "a", " ">> ELSE <<"a">>

\* clause_extractor_node, lines 133-140: the merged clauses of a node are
\* numbered from 1 and stamped with the node's id.
Renumber(id, texts) ==
    [i \in DOMAIN texts |->
        [matrix_id |-> create_matrix_id(section_id_of(id), i),
         section_id |-> section_id_of(id),
         original_text |-> texts[i]]]

\* A state merge without a reducer: the last worker's list replaces the
\* others.
operator_add_last_wins(a, b) == b

\* The reducer of state["clauses"] (schema.py 248).
operator_add(a, b) == a \o b

\* The sort key (c.section_id, c.matrix_id) of line 68 and its order.
key_lt(c, d) ==
    IF c.section_id # d.section_id THEN str_lt(c.section_id, d.section_id)
    ELSE str_lt(c.matrix_id, d.matrix_id)

\* One step of a stable sort: c goes behind every element whose key is not
\* greater than its own.
RECURSIVE insort(_, _)
insort(c, s) ==
    IF s = <<>> THEN <<c>>
    ELSE IF key_lt(c, Head(s)) THEN <<c>> \o s
    ELSE <<Head(s)>> \o insort(c, Tail(s))

\* An aggregator that leaves the clauses in the order of arrival.
sort_clauses_unsorted(cs) == cs

\* _sort_clauses: sorted() is stable.
RECURSIVE sort_clauses(_)
sort_clauses(cs) ==
    IF cs = <<>> THEN <<>>
    ELSE insort(cs[Len(cs)], sort_clauses(SubSeq(cs, 1, Len(cs) - 1)))

\* _normalize_clauses: the text fields are stripped in place.
normalize_clauses(cs) ==
    [i \in DOMAIN cs |-> [cs[i] EXCEPT !.original_text = strip(@)]]

(***************************************************************************)
(* The node functions (components/*.py, domain/workflow.py).               *)
(***************************************************************************)

\* graph.invoke starts in the executor: the superstep of the two parsers.
Invoke ==
    \E t \in TaskIds :
    /\ bg[t] = "invoking"
    /\ wf = "idle"
    /\ wf' = "running"
    /\ wf_task_id' = t
    /\ wf_tasks' = {Task(n, 0, 0) : n \in StartNodes}
    /\ pc' = [n \in DOMAIN pc |-> IF n \in StartNodes THEN Entered ELSE pc[n]]
    /\ clauses' = <<>>
    /\ final_matrix' = <<>>
    /\ UNCHANGED <<wf_next, wf_sends, cur, pageindex_document, error_message,
                   filled, extracted, fan_calls, sent, node_ids, returned,
                   written>>
    /\ UNCHANGED apiVars

\* structure_parser_node, lines 112-122: loading the client (before the
\* second update_progress) or parsing (before the third) raised; the handler
\* logs progress 0 through TaskTracker.log_progress and returns the error.
StructureParserFails ==
    LET task == Task("structure_parser", 0, 0)
    IN  /\ wf = "running"
        /\ task \in wf_tasks
        /\ pc.structure_parser.ph = "read"
        /\ pc.structure_parser.i \in {2, 3}
        /\ update_task(wf_task_id, None, 0, WorkerMessage, None, FALSE, TRUE)
        /\ error_message' = error_message \cup {"structure_parser"}
        /\ pc' = [pc EXCEPT !.structure_parser = NotRunning]
        /\ Finish(task)
        /\ UNCHANGED <<wf, wf_task_id, cur, pageindex_document, filled,
                       extracted>>
        /\ UNCHANGED apiRest
        /\ UNCHANGED matrixVars

\* structure_parser_node, line 110: the tree is returned (an empty parser
\* result is replaced by a single root, lines 66-76).
StructureParserReturns(outlines) ==
    LET task == Task("structure_parser", 0, 0)
    IN  /\ wf = "running"
        /\ task \in wf_tasks
        /\ pc.structure_parser.ph = "return"
        /\ \E outline \in outlines :
                /\ pageindex_document' = outline.tree
                /\ node_ids' = outline.ids
        /\ pc' = [pc EXCEPT !.structure_parser = NotRunning]
        /\ Finish(task)
        /\ UNCHANGED <<wf, wf_task_id, cur, error_message, filled, extracted>>
        /\ UNCHANGED <<clauses, returned, final_matrix, written>>
        /\ UNCHANGED apiVars

\* mineru_parser_node, lines 58-66 and 94-104: loading the client raised, or
\* parsing raised or returned nothing; the error is returned, the tracker is
\* not written.
MineruParserFails ==
    LET task == Task("mineru_parser", 0, 0)
    IN  /\ wf = "running"
        /\ task \in wf_tasks
        /\ \/ pc.mineru_parser.ph = "read" /\ pc.mineru_parser.i = 2
           \/ pc.mineru_parser.ph = "return"
        /\ error_message' = error_message \cup {"mineru_parser"}
        /\ pc' = [pc EXCEPT !.mineru_parser = NotRunning]
        /\ Finish(task)
        /\ UNCHANGED <<wf, wf_task_id, cur, pageindex_document, filled,
                       extracted>>
        /\ UNCHANGED apiVars
        /\ UNCHANGED matrixVars

\* mineru_parser_node, lines 81-92: progress 15 through
\* TaskTracker.log_progress, then the content list is returned.
MineruParserReturns ==
    LET task == Task("mineru_parser", 0, 0)
    IN  /\ wf = "running"
        /\ task \in wf_tasks
        /\ pc.mineru_parser.ph = "return"
        /\ update_task(wf_task_id, None, 15, WorkerMessage, None, FALSE, TRUE)
        /\ pc' = [pc EXCEPT !.mineru_parser = NotRunning]
        /\ Finish(task)
        /\ UNCHANGED <<wf, wf_task_id, cur, pageindex_document, error_message,
                       filled, extracted>>
        /\ UNCHANGED apiRest
        /\ UNCHANGED matrixVars

\* _parser_sync_node returns, and _fan_out_text_fillers runs.
ParserSyncReturns ==
    LET task == Task("parser_sync", 0, 0)
    IN  /\ wf = "running"
        /\ task \in wf_tasks
        /\ pc.parser_sync.ph = "return"
        /\ pc' = [pc EXCEPT !.parser_sync = NotRunning]
        /\ Finish(task)
        /\ UNCHANGED <<wf, wf_task_id, cur, pageindex_document, error_message,
                       filled, extracted>>
        /\ UNCHANGED apiVars
        /\ UNCHANGED matrixVars

\* A buggy worker that also writes the node whose title bounds its text:
\* its first child.
NodesWrittenWithBoundary(tree, node) ==
    {node} \cup {c \in nodes(tree, node) : \A d \in nodes(tree, node) : c <= d}

\* The outline nodes a worker assigned to a node assigns fields of:
\* text_filler original_text, positions and summary (text_filler.py 261-262,
\* 280, 290, 299-308 and 78-79), clause_extractor clauses
\* (clause_extractor.py 156); the children and siblings of the node are
\* read only.
NodesWritten(tree, node) == {node}

\* text_filler_node for one tree node: the node's text is filled in place.
TextFiller ==
    \E task \in wf_tasks :
    /\ wf = "running"
    /\ task.node = "text_filler"
    /\ filled' = filled \cup {task.arg}
    /\ written' = written \cup
            {[by |-> task, node |-> n] :
                n \in NodesWritten(pageindex_document, task.arg)}
    /\ Finish(task)
    /\ UNCHANGED <<wf, wf_task_id, pc, cur, pageindex_document, error_message,
                   extracted>>
    /\ UNCHANGED <<node_ids, clauses, returned, final_matrix>>
    /\ UNCHANGED apiVars

\* _text_fill_sync_node returns, and _fan_out_clause_extractors runs.
TextFillSync ==
    LET task == Task("text_fill_sync", 0, 0)
    IN  /\ wf = "running"
        /\ task \in wf_tasks
        /\ Finish(task)
        /\ UNCHANGED <<wf, wf_task_id, pc, cur, pageindex_document,
                       error_message, filled, extracted>>
        /\ UNCHANGED apiVars
        /\ UNCHANGED matrixVars

\* clause_extractor_node for one leaf: progress 50 through
\* TaskTracker.log_progress (line 61), then the leaf's clauses, renumbered,
\* are returned and merged into state["clauses"]; a failed extraction
\* returns none (lines 160-163).  counts are the numbers of clauses the
\* models may find in a leaf.
ClauseExtractor(counts) ==
    \E task \in wf_tasks, k \in counts :
    LET all_clauses ==
            Renumber(node_ids[task.arg], [i \in 1..k |-> llm_text(i)])
    IN  /\ wf = "running"
        /\ task.node = "clause_extractor"
        /\ update_task(wf_task_id, None, 50, WorkerMessage, None, FALSE, TRUE)
        /\ extracted' = extracted \cup {task.arg}
        /\ returned' = [returned EXCEPT ![task.arg] = all_clauses]
        /\ clauses' = operator_add(clauses, all_clauses)
        /\ written' = written \cup
                {[by |-> task, node |-> n] :
                    n \in NodesWritten(pageindex_document, task.arg)}
        /\ Finish(task)
        /\ UNCHANGED <<wf, wf_task_id, pc, cur, pageindex_document,
                       error_message, filled, node_ids, final_matrix>>
        /\ UNCHANGED apiRest

\* clause_aggregator_node: progress 85 through TaskTracker.update_task
\* (line 41); the accumulated clauses are sorted and normalized (the clause
\* objects of state["clauses"] are the ones normalized) and returned as
\* final_matrix.
ClauseAggregator ==
    LET task == Task("clause_aggregator", 0, 0)
    IN  /\ wf = "running"
        /\ task \in wf_tasks
        /\ update_task(wf_task_id, None, 85, WorkerMessage, None, FALSE, TRUE)
        /\ final_matrix' = IF clauses = <<>> THEN <<>>
                           ELSE normalize_clauses(sort_clauses(clauses))
        /\ clauses' = normalize_clauses(clauses)
        /\ Finish(task)
        /\ UNCHANGED <<wf, wf_task_id, pc, cur, pageindex_document,
                       error_message, filled, extracted, node_ids, returned,
                       written>>
        /\ UNCHANGED apiRest

\* clause_locator_node: positions are set in place; its edge leads to END.
ClauseLocator ==
    LET task == Task("clause_locator", 0, 0)
    IN  /\ wf = "running"
        /\ task \in wf_tasks
        /\ Finish(task)
        /\ UNCHANGED <<wf, wf_task_id, pc, cur, pageindex_document,
                       error_message, filled, extracted>>
        /\ UNCHANGED apiVars
        /\ UNCHANGED matrixVars

\* graph.invoke raises instead of returning a final state.
GraphRaises ==
    /\ wf = "running"
    /\ wf' = "raised"
    /\ UNCHANGED <<wf_task_id, wf_tasks, wf_next, wf_sends, pc, cur,
                   pageindex_document, error_message, filled, extracted,
                   fan_calls, sent>>
    /\ UNCHANGED apiVars
    /\ UNCHANGED matrixVars

\* What graph.invoke hands to line 75, once it has: the final state's
\* error_message decides between "ok" and "error_message".
FlowResults ==
    IF wf = "end"
    THEN IF error_message # {} THEN {"error_message"} ELSE {"ok"}
    ELSE IF wf = "raised" THEN {"raised"} ELSE {}

InitFlow ==
    /\ wf = "idle"
    /\ wf_task_id = 0
    /\ wf_tasks = {}
    /\ wf_next = {}
    /\ wf_sends = {}
    /\ pc = [n \in DOMAIN Targets |-> NotRunning]
    /\ cur = [n \in DOMAIN Targets |-> NoneP]
    /\ pageindex_document = NoDocument
    /\ error_message = {}
    /\ filled = {}
    /\ extracted = {}
    /\ fan_calls = [r \in {"text_filler", "clause_extractor"} |-> 0]
    /\ sent = {}
    /\ node_ids = <<>>
    /\ clauses = <<>>
    /\ returned = [i \in 1..MaxNodes |-> <<>>]
    /\ final_matrix = <<>>
    /\ written = {}

(***************************************************************************)
(* The completion wrappers of the outline library (pageindex/utils.py):    *)
(* ChatGPT_API_with_finish_reason, ChatGPT_API and ChatGPT_API_async.      *)
(***************************************************************************)
MaxFallbacks == 2
max_retries == 10

VARIABLES
    llm_pc,      \* "idle", "attempt" (inside the loops), "returned", "raised"
    llm_fn,      \* the wrapper that was called
    all_models,  \* len(all_models): the primary model and the fallbacks
    model_idx,   \* index of the current model in all_models, from 0
    retry_i,     \* the loop variable i of the retry loop
    attempts,    \* per model index: completion requests made so far
    limited_at,  \* per model index: its attempts when it was rate-limited
    last,        \* the last attempt: its model index and its outcome
    llm_result   \* what the call returned

llmVars == <<llm_pc, llm_fn, all_models, model_idx, retry_i, attempts,
             limited_at, last, llm_result>>

Wrappers == {"ChatGPT_API_with_finish_reason", "ChatGPT_API",
             "ChatGPT_API_async"}

\* What a completion request can do: answer, or raise an exception whose
\* lower-cased text holds "429", "rate", "quota", or none of them.
Outcomes == {"ok", "429", "rate", "quota", "other"}

\* A buggy test that takes no error for a rate limit.
IsRateLimitNever(error_str) == FALSE

\* Lines 87, 144, 194: the rate-limit test on the error text.
IsRateLimit(error_str) == error_str \in {"429", "rate", "quota"}

\* A buggy bound of the retry loop: one attempt short.
RetriesLeftShort(k) == k < max_retries - 2

\* Lines 101, 158, 208: "if i < max_retries - 1".
RetriesLeft(k) == k < max_retries - 1

\* The sentinel a wrapper returns when every model is used up.
ErrorSentinel(fn) ==
    IF fn = "ChatGPT_API_with_finish_reason" THEN <<"Error", "error">>
    ELSE <<"Error">>

\* A wrapper is called with a primary model; the fallback list holds
\* between 0 and MaxFallbacks models.
Call ==
    \E fn \in Wrappers, fallbacks \in 0..MaxFallbacks :
    /\ llm_pc = "idle"
    /\ llm_pc' = "attempt"
    /\ llm_fn' = fn
    /\ all_models' = 1 + fallbacks
    /\ model_idx' = 0
    /\ retry_i' = 0
    /\ UNCHANGED <<attempts, limited_at, last, llm_result>>

\* One pass of the inner loop body: the request to all_models[model_idx]
\* and, when it raises, the except block.
Attempt(outcome) ==
    /\ llm_pc = "attempt"
    /\ attempts' = [attempts EXCEPT ![model_idx] = @ + 1]
    /\ last' = [model |-> model_idx, outcome |-> outcome]
    /\ UNCHANGED <<llm_fn, all_models>>
    /\ IF outcome = "ok"
       THEN /\ llm_pc' = "returned"
            /\ llm_result' = <<"content">>
            /\ UNCHANGED <<model_idx, retry_i, limited_at>>
       ELSE IF IsRateLimit(outcome)
       THEN /\ limited_at' = [limited_at EXCEPT ![model_idx] = attempts'[model_idx]]
            /\ IF model_idx < all_models - 1
               THEN /\ model_idx' = model_idx + 1
                    /\ retry_i' = 0
                    /\ UNCHANGED <<llm_pc, llm_result>>
               ELSE /\ llm_pc' = "raised"
                    /\ UNCHANGED <<model_idx, retry_i, llm_result>>
       ELSE IF RetriesLeft(retry_i)
       THEN /\ retry_i' = retry_i + 1
            /\ UNCHANGED <<llm_pc, model_idx, limited_at, llm_result>>
       ELSE IF model_idx < all_models - 1
       THEN /\ model_idx' = model_idx + 1
            /\ retry_i' = 0
            /\ UNCHANGED <<llm_pc, limited_at, llm_result>>
       ELSE /\ llm_pc' = "returned"
            /\ llm_result' = ErrorSentinel(llm_fn)
            /\ UNCHANGED <<model_idx, retry_i, limited_at>>

AttemptSucceeds == Attempt("ok")
AttemptRateLimited == \E e \in {"429", "rate", "quota"} : Attempt(e)
AttemptFails == Attempt("other")

InitLLM ==
    /\ llm_pc = "idle"
    /\ llm_fn = None
    /\ all_models = 0
    /\ model_idx = 0
    /\ retry_i = 0
    /\ attempts = [m \in 0..MaxFallbacks |-> 0]
    /\ limited_at = [m \in 0..MaxFallbacks |-> 0]
    /\ last = [model |-> NoneP, outcome |-> None]
    /\ llm_result = <<>>

(***************************************************************************)
(* GET /progress/{task_id}: the progress stream (get_progress).            *)
(***************************************************************************)
max_polls == 600

VARIABLES
    sse_pc,         \* "idle", "poll", "sleep", "final", "done"
    sse_task_id,    \* the task the stream was opened for
    polls,          \* the generator's polls
    last_progress,  \* the generator's last_progress
    sse_seen,       \* the status the last poll observed
    sse_event,      \* the last event the stream emitted
    sse_exit,       \* how the loop was left: "missing", "terminal", "limit"
    sse_dones       \* the closing events the stream has emitted

streamVars == <<sse_pc, sse_task_id, polls, last_progress, sse_seen, sse_event,
                sse_exit, sse_dones>>

\* The variables of the API layer the stream never writes.
apiNotCache == <<db_tasks, db_logs, db_sections, db_clauses, next_uuid, clock,
                 bg, run_exc, faults, file_of, last_response, deleted>>

\* A buggy test that lets a failed task keep the stream polling.
IsTerminalCompletedOnly(status) == status = "completed"

\* Line 434: task["status"] in ("completed", "failed").
IsTerminal(status) == status \in {"completed", "failed"}

\* A buggy exit that returns from the generator when the task is missing
\* instead of breaking out of the loop.
AfterLoopReturnsOnMissing(exit) ==
    IF exit = "missing" THEN "done" ELSE "final"

\* Lines 409, 435 and 404: a break and the end of the loop both continue at
\* the statement after the loop, line 440.
AfterLoop(exit) == "final"

\* The request arrives and the generator starts (lines 400-402).
OpenStream ==
    \E t \in TaskIds :
    /\ sse_pc = "idle"
    /\ sse_pc' = "poll"
    /\ sse_task_id' = t
    /\ polls' = 0
    /\ last_progress' = NoneP
    /\ UNCHANGED <<sse_seen, sse_event, sse_exit, sse_dones>>
    /\ UNCHANGED apiVars

\* One pass of the loop body, lines 405-435: the task is looked up; a
\* missing task ends the loop with an error event; a changed progress is
\* emitted; a terminal status ends the loop.
Poll ==
    /\ sse_pc = "poll"
    /\ task_cache' = get_task(task_cache, sse_task_id)
    /\ IF sse_task_id \notin DOMAIN task_cache'
       THEN /\ sse_event' = "error"
            /\ sse_pc' = AfterLoop("missing")
            /\ sse_exit' = "missing"
            /\ sse_seen' = None
            /\ UNCHANGED last_progress
       ELSE LET task == task_cache'[sse_task_id]
            IN  /\ sse_event' = IF task.progress # last_progress THEN "payload"
                                ELSE sse_event
                /\ last_progress' = task.progress
                /\ sse_seen' = task.status
                /\ sse_pc' = IF IsTerminal(task.status)
                             THEN AfterLoop("terminal") ELSE "sleep"
                /\ sse_exit' = IF IsTerminal(task.status) THEN "terminal"
                               ELSE sse_exit
    /\ UNCHANGED <<sse_task_id, polls, sse_dones>>
    /\ UNCHANGED apiNotCache

\* Lines 437-438 and the loop test of line 404.
Sleep ==
    /\ sse_pc = "sleep"
    /\ polls' = polls + 1
    /\ sse_pc' = IF polls' < max_polls THEN "poll" ELSE AfterLoop("limit")
    /\ sse_exit' = IF polls' < max_polls THEN sse_exit ELSE "limit"
    /\ UNCHANGED <<sse_task_id, last_progress, sse_seen, sse_event, sse_dones>>
    /\ UNCHANGED apiVars

\* Line 440: the closing event; the generator is exhausted.
CloseStream ==
    /\ sse_pc = "final"
    /\ sse_event' = "done"
    /\ sse_dones' = sse_dones + 1
    /\ sse_pc' = "done"
    /\ UNCHANGED <<sse_task_id, polls, last_progress, sse_seen, sse_exit>>
    /\ UNCHANGED apiVars

InitStream ==
    /\ sse_pc = "idle"
    /\ sse_task_id = 0
    /\ polls = 0
    /\ last_progress = NoneP
    /\ sse_seen = None
    /\ sse_event = None
    /\ sse_exit = None
    /\ sse_dones = 0

(***************************************************************************)
(* TitleMatcher.normalize_title (tools/section_slicer.py).  A title is the *)
(* sequence of its characters; the ideographs are written by name: "YI"    *)
(* is the numeral one, "DI" the ordinal prefix, "ZHANG" the word chapter,  *)
(* "GAI" an ideograph of no special role.                                  *)
(***************************************************************************)
MaxTitleLen == 3

VARIABLES
    title,      \* the string normalize_title is called on
    once,       \* normalize_title(title)
    twice,      \* normalize_title(once)
    nt_calls    \* the calls of normalize_title made so far

titleVars == <<title, once, twice, nt_calls>>

\* The characters titles are made of here.
TitleChars == {"A", "1", " ", ".", "(", "YI", "DI", "ZHANG", "GAI"}

Titles == UNION {[1..n -> TitleChars] : n \in 0..MaxTitleLen}

\* The character classes of the patterns, lines 44-50.
Whitespace == {" "}
Digits == {"1"}
Kept == {"1", "a", "YI", "DI", "ZHANG", "GAI"}
Numerals == {"1", "YI"}
Suffixes == {"ZHANG", "."}
Opening == {"("}
Closing == {")"}
Separators == {"."}

\* title.lower(), line 43.
lower(s) == [i \in DOMAIN s |-> IF s[i] = "A" THEN "a" ELSE s[i]]

\* re.sub of a pattern class+ by the empty string: the characters of the
\* class are removed.
remove(s, class) ==
    LET keep(c) == c \notin class
    IN  SelectSeq(s, keep)

\* The length of the longest prefix of s made of characters of the class.
RECURSIVE span(_, _)
span(s, class) ==
    IF s # <<>> /\ Head(s) \in class THEN 1 + span(Tail(s), class) ELSE 0

\* s without its first n characters.
drop(s, n) == SubSeq(s, n + 1, Len(s))

\* Line 48: the prefix DI? numeral+ suffix* is removed.
strip_chapter_prefix(s) ==
    LET a == IF s # <<>> /\ Head(s) = "DI" THEN 1 ELSE 0
        n == span(drop(s, a), Numerals)
    IN  IF n = 0 THEN s
        ELSE drop(s, a + n + span(drop(s, a + n), Suffixes))

\* Line 49: the prefix opening? numeral+ closing? is removed.
strip_numeral_prefix(s) ==
    LET a == IF s # <<>> /\ Head(s) \in Opening THEN 1 ELSE 0
        n == span(drop(s, a), Numerals)
        rest == drop(s, a + n)
    IN  IF n = 0 THEN s
        ELSE IF rest # <<>> /\ Head(rest) \in Closing THEN Tail(rest)
        ELSE rest

\* Line 50: the prefix digit+ separator is removed.
strip_number_prefix(s) ==
    LET n == span(s, Digits)
        rest == drop(s, n)
    IN  IF n > 0 /\ rest # <<>> /\ Head(rest) \in Separators THEN Tail(rest)
        ELSE s

\* normalize_title, lines 41-51.
normalize_title(t) ==
    IF t = <<>> THEN <<>>
    ELSE strip_number_prefix(strip_numeral_prefix(strip_chapter_prefix(
            remove(remove(lower(t), Whitespace),
                   (TitleChars \cup {"a"}) \ Kept))))

\* normalize_title is called on the title.
NormalizeTitle ==
    /\ nt_calls = 0
    /\ once' = normalize_title(title)
    /\ nt_calls' = 1
    /\ UNCHANGED <<title, twice>>

\* normalize_title is called on its own result.
NormalizeAgain ==
    /\ nt_calls = 1
    /\ twice' = normalize_title(once)
    /\ nt_calls' = 2
    /\ UNCHANGED <<title, once>>

InitTitle ==
    /\ title \in Titles
    /\ once = <<>>
    /\ twice = <<>>
    /\ nt_calls = 0

(***************************************************************************)
(* Bounding boxes of a finished run: what the workflow located, how        *)
(* _run_analysis_pipeline converts and stores it (api/analysis_endpoints   *)
(* .py 80-118, tools/mineru_coordinate_converter.py) and what              *)
(* GET /task/{task_id} returns.  A position is <<page_idx, x0, y0, x1,     *)
(* y1>>; a list of positions carries its unit, and coordinates in points   *)
(* are counted in thousandths of a point, so that x / 1000 * width is      *)
(* exact.                                                                  *)
(***************************************************************************)
MaxBoxes == 1
DEFAULT_A4_WIDTH == 595
DEFAULT_A4_HEIGHT == 842

VARIABLES
    rs_pc,          \* position in _run_analysis_pipeline, lines 75-118,
                    \* then "completed" and, after the query, "answered"
    rs_doc,         \* the outline node of the result and its clauses
    page_dims,      \* the cached page dimensions, NoDims if caching failed
    db_matrix,      \* clauses table: positions_json of the task's clauses
    tree_data,      \* the serialized tree: result["document_tree"] of the
                    \* cache and document_tree_json of the tasks table
    rs_response     \* what GET /task/{task_id} returned

resultVars == <<rs_pc, rs_doc, page_dims, db_matrix, tree_data, rs_response>>

\* The pages of the document: [width, height] in points.
PageSizes == <<[width |-> 600, height |-> 800]>>

\* page_dims is None.
NoDims == <<>>

\* The positions text_filler and clause_locator attach: of the extractor's
\* content blocks, in its normalized units.
Boxes == {<<0, 0, 0, 1000, 1000>>, <<1, 250, 500, 500, 750>>}

Located ==
    {[unit |-> "normalized", boxes |-> b] :
        b \in UNION {[1..n -> Boxes] : n \in 0..MaxBoxes}}

\* convert_mineru_to_page_rect, lines 28-59.
convert_mineru_to_page_rect(bbox, page_width, page_height) ==
    <<bbox[1] * page_width, bbox[2] * page_height,
      bbox[3] * page_width, bbox[4] * page_height>>

\* convert_positions_for_frontend, lines 66-127, with the page dimensions
\* resolved.
convert_positions_for_frontend(positions, page_dimensions) ==
    IF positions.boxes = <<>> THEN [unit |-> "points", boxes |-> <<>>]
    ELSE [unit |-> "points",
          boxes |-> [i \in DOMAIN positions.boxes |->
            LET pos == positions.boxes[i]
                page_idx == pos[1]
                size == IF page_idx < Len(page_dimensions)
                        THEN page_dimensions[page_idx + 1]
                        ELSE [width |-> DEFAULT_A4_WIDTH,
                              height |-> DEFAULT_A4_HEIGHT]
            IN  <<page_idx>> \o convert_mineru_to_page_rect(
                    <<pos[2], pos[3], pos[4], pos[5]>>,
                    size.width, size.height)]]

\* The conversion as the pipeline calls it, inside try/except: without
\* cached dimensions the PDF is opened again, and when that fails the
\* positions stay as they are (lines 169-176 and 257-267).  An empty list
\* is skipped.
TryConvert(positions, dims, opens) ==
    IF positions.boxes = <<>> THEN positions
    ELSE IF dims # NoDims
         THEN convert_positions_for_frontend(positions, dims)
    ELSE IF opens THEN convert_positions_for_frontend(positions, PageSizes)
    ELSE positions

\* graph.invoke returns: a leaf with the positions text_filler gave it and
\* its clauses with the positions clause_locator gave them; the clauses of
\* final_matrix are the clauses of the node.
WorkflowReturns ==
    /\ rs_pc = "invoke"
    /\ \E p \in Located, n \in 0..MaxClauses :
       \E cs \in [1..n -> Located] :
            rs_doc' = [positions |-> p, clauses |-> cs]
    /\ rs_pc' = "cache_dims"
    /\ UNCHANGED <<page_dims, db_matrix, tree_data, rs_response>>

\* _cache_page_dimensions (line 84): the dimensions, or None when the PDF
\* cannot be read.
CachePageDimensions ==
    /\ rs_pc = "cache_dims"
    /\ \E readable \in BOOLEAN :
        page_dims' = IF readable THEN PageSizes ELSE NoDims
    /\ rs_pc' = "persist"
    /\ UNCHANGED <<rs_doc, db_matrix, tree_data, rs_response>>

\* _persist_analysis_results, lines 172-205: the clauses of final_matrix
\* are stored with converted positions.
PersistAnalysisResults ==
    /\ rs_pc = "persist"
    /\ \E opens \in BOOLEAN :
        db_matrix' = [i \in DOMAIN rs_doc.clauses |->
                        TryConvert(rs_doc.clauses[i], page_dims, opens)]
    /\ rs_pc' = "dump"
    /\ UNCHANGED <<rs_doc, page_dims, tree_data, rs_response>>

\* _convert_tree_positions on a serialized node: its own positions are
\* converted; its children are visited, its clauses are not.
convert_tree_positions(node_data, dims, opens) ==
    [node_data EXCEPT !.positions = TryConvert(@, dims, opens)]

\* Lines 92-118: the tree is serialized with model_dump, its positions are
\* converted, and the task is completed with the tree as result and as
\* document_tree_json.
CompleteWithTree ==
    /\ rs_pc = "dump"
    /\ \E opens \in BOOLEAN :
        tree_data' = convert_tree_positions(rs_doc, page_dims, opens)
    /\ rs_pc' = "completed"
    /\ UNCHANGED <<rs_doc, page_dims, db_matrix, rs_response>>

\* get_task_result for the completed task: the matrix from the clauses
\* table, the tree from the cached result or the tasks table.
GetTaskResult ==
    /\ rs_pc = "completed"
    /\ rs_response' = [matrix |-> db_matrix, document_tree |-> tree_data]
    /\ rs_pc' = "answered"
    /\ UNCHANGED <<rs_doc, page_dims, db_matrix, tree_data>>

\* Nothing has been returned or stored yet.
NoResult == [positions |-> [unit |-> "normalized", boxes |-> <<>>],
             clauses |-> <<>>]

\* graph.invoke is running for the task.
InitResult ==
    /\ rs_pc = "invoke"
    /\ rs_doc = NoResult
    /\ page_dims = NoDims
    /\ db_matrix = <<>>
    /\ tree_data = NoResult
    /\ rs_response = [matrix |-> <<>>, document_tree |-> NoResult]

(***************************************************************************)
(* The counters of a task row and the repository operations that write     *)
(* them (datasources/crud.py, datasources/models.py).                      *)
(***************************************************************************)
MaxCount == 3

VARIABLES
    task_row    \* the row of one task in the tasks table, with its counters

repoVars == <<task_row>>

Counts == 0..MaxCount

\* An optional integer argument: NoneP is None.
OptionalCounts == Counts \cup {NoneP}

\* TaskRepository.create_task, lines 24-48: the counters take the column
\* defaults of models.py 46-48.
RepoCreateTask ==
    /\ ~task_row.persisted
    /\ task_row' = [persisted |-> TRUE, total_sections |-> 0,
                    total_clauses |-> 0, total_requirements |-> 0,
                    minio_url |-> None]

\* TaskRepository.update_task_stats, lines 95-118.
UpdateTaskStats ==
    \E total_sections \in OptionalCounts, total_clauses \in OptionalCounts,
       total_requirements \in OptionalCounts :
    LET clauses_count == IF total_clauses # NoneP THEN total_clauses
                         ELSE total_requirements
        with_sections == IF total_sections # NoneP
                         THEN [task_row EXCEPT !.total_sections = total_sections]
                         ELSE task_row
    IN  /\ task_row.persisted
        /\ task_row' =
            IF clauses_count # NoneP
            THEN [with_sections EXCEPT !.total_clauses = clauses_count,
                                       !.total_requirements = clauses_count]
            ELSE with_sections

\* The attributes of a task row a caller may name in updates, and a name
\* the row does not have.
UpdateKeys == {"total_clauses", "total_requirements", "minio_url", "no_such"}

\* TaskRepository.update_task, lines 120-138: every key of updates that is
\* an attribute of the row is set to its value.
UpdateTaskGeneric ==
    \E keys \in SUBSET UpdateKeys, c \in Counts, r \in Counts :
    LET updates == [k \in keys |->
                        IF k = "total_clauses" THEN c
                        ELSE IF k = "total_requirements" THEN r
                        ELSE 0]
    IN  /\ task_row.persisted
        /\ task_row' =
            [task_row EXCEPT
                !.total_clauses =
                    IF "total_clauses" \in keys THEN updates.total_clauses
                    ELSE @,
                !.total_requirements =
                    IF "total_requirements" \in keys
                    THEN updates.total_requirements ELSE @,
                !.minio_url = IF "minio_url" \in keys THEN "url" ELSE @]

\* No row yet.
InitRepo ==
    task_row = [persisted |-> FALSE, total_sections |-> 0,
                total_clauses |-> 0, total_requirements |-> 0,
                minio_url |-> None]

(***************************************************************************)
(* The stage functions as functions of their input state: what each does   *)
(* outside and inside its try block.                                       *)
(***************************************************************************)
VARIABLES
    stage,              \* the stage function invoked last, None before any
    stage_state,        \* the input state it was invoked with
    stage_result        \* how the invocation ended and what it returned

stageVars == <<stage, stage_state, stage_result>>

\* The input states of a stage function, by what the stages look at:
\*   pdf_path     state has the key "pdf_path" (with a path as its value)
\*   work_item    state has the stage's node or document ("node",
\*                "pageindex_node", "pageindex_document")
\*   content      state["mineru_content_list"]: empty, well formed, or
\*                holding a text item whose "text" is null on a node that
\*                bears a text clause
\*   clauses      the extractors produced clauses (state["clauses"] and the
\*                clauses of the nodes)
\*   body_raises  the parser, matcher or model call of the stage raises
StageStates ==
    [pdf_path : BOOLEAN, work_item : BOOLEAN,
     content : {"empty", "well_formed", "null_text"},
     clauses : BOOLEAN, body_raises : BOOLEAN]

\* The ends of an invocation: the exception leaves the function, or the
\* function returns its empty/default output, or its normal output.
Raised == [outcome |-> "raised", output |-> "none"]
Default == [outcome |-> "returned", output |-> "default"]
Normal == [outcome |-> "returned", output |-> "normal"]

\* structure_parser_node: state["pdf_path"] is read at line 37, before the
\* try of line 43; the except of lines 112-122 returns error_message and no
\* document.
structure_parser_node(state) ==
    IF ~state.pdf_path THEN Raised
    ELSE IF state.body_raises THEN Default
    ELSE Normal

\* mineru_parser_node: state.get("pdf_path") and the early return of lines
\* 30-37; the except of lines 94-104 returns error_message and an empty
\* content list.
mineru_parser_node(state) ==
    IF ~state.pdf_path THEN Default
    ELSE IF state.body_raises THEN Default
    ELSE Normal

\* text_filler_node: the early returns of lines 48-55, then the try of
\* lines 57-80 around find_siblings and fill_single_node_text; the except
\* empties the node's original_text and summary.
text_filler_node(state) ==
    IF ~state.work_item THEN Default
    ELSE IF state.content = "empty" THEN Default
    ELSE IF state.body_raises THEN Default
    ELSE Normal

\* clause_extractor_node: the early return of lines 52-54, then the try of
\* lines 63-158; the except of lines 160-163 returns no clauses.
clause_extractor_node(state) ==
    IF ~state.work_item THEN Default
    ELSE IF state.body_raises THEN Default
    ELSE Normal

\* clause_aggregator_node: no try block; the early return of lines 47-49,
\* then the sort and the strip of the str fields of validated ClauseItems,
\* which do not raise.
clause_aggregator_node(state) ==
    IF ~state.clauses THEN Default ELSE Normal

\* clause_locator_node: no try block; the early returns of lines 41-47,
\* then for each clause _locate_text_clause, whose matcher passes
\* content.get("text", "") to re.sub (clause_text_matcher.py 118-119 and
\* 290): a null text raises TypeError, and nothing between there and the
\* caller of clause_locator_node catches it.
clause_locator_node(state) ==
    IF ~state.work_item THEN Default
    ELSE IF state.content = "empty" THEN Default
    ELSE IF state.clauses /\ (state.content = "null_text" \/ state.body_raises)
         THEN Raised
    ELSE Normal

\* The stage functions by the name of their graph node (workflow.py 64-71).
StageNames ==
    {"structure_parser", "mineru_parser", "text_filler", "clause_extractor",
     "clause_aggregator", "clause_locator"}

StageFunction(name, state) ==
    CASE name = "structure_parser" -> structure_parser_node(state)
      [] name = "mineru_parser" -> mineru_parser_node(state)
      [] name = "text_filler" -> text_filler_node(state)
      [] name = "clause_extractor" -> clause_extractor_node(state)
      [] name = "clause_aggregator" -> clause_aggregator_node(state)
      [] name = "clause_locator" -> clause_locator_node(state)

\* One invocation of the stage function of a graph node on an input state.
InvokeStage(name) ==
    \E state \in StageStates :
    /\ stage' = name
    /\ stage_state' = state
    /\ stage_result' = StageFunction(name, state)

\* No stage has been invoked.
InitStage ==
    /\ stage = None
    /\ stage_state = [pdf_path |-> TRUE, work_item |-> TRUE,
                      content |-> "empty", clauses |-> FALSE,
                      body_raises |-> FALSE]
    /\ stage_result = [outcome |-> "none", output |-> "none"]

(***************************************************************************)
(* The in-memory log list of one task under the updates of the worker      *)
(* threads (TaskTracker.update_task, lines 165-173; no lock is taken).     *)
(***************************************************************************)
\* _MAX_LOG_ENTRIES of task_tracker.py line 31, which is 50 there.
MAX_LOG_ENTRIES == 2

\* The worker threads that update the task, and the messages they record
\* between them.
MaxThreads == 2
MaxMessages == 5

VARIABLES
    lg_logs,            \* task["logs"], the messages by their record number
    lg_pc,              \* per thread: where it is in lines 165-173
    lg_tmp,             \* per thread: the slice it computed at line 173
    lg_recorded         \* how many messages have been appended so far

logVars == <<lg_logs, lg_pc, lg_tmp, lg_recorded>>

Threads == 1..MaxThreads

\* s[-n:] of a Python list.
LastN(s, n) == IF Len(s) <= n THEN s ELSE SubSeq(s, Len(s) - n + 1, Len(s))

\* Lines 165-171 of a call with a message: task["logs"].append(...).
LogAppend(th) ==
    /\ lg_pc[th] = "idle"
    /\ lg_recorded < MaxMessages
    /\ lg_recorded' = lg_recorded + 1
    /\ lg_logs' = Append(lg_logs, lg_recorded + 1)
    /\ lg_pc' = [lg_pc EXCEPT ![th] = "check"]
    /\ UNCHANGED lg_tmp

\* Line 172: len(task["logs"]) > _MAX_LOG_ENTRIES.
LogCheck(th) ==
    /\ lg_pc[th] = "check"
    /\ lg_pc' = [lg_pc EXCEPT ![th] =
                    IF Len(lg_logs) > MAX_LOG_ENTRIES THEN "slice" ELSE "idle"]
    /\ UNCHANGED <<lg_logs, lg_tmp, lg_recorded>>

\* Line 173, right-hand side: task["logs"][-_MAX_LOG_ENTRIES:] builds a new
\* list.
LogSlice(th) ==
    /\ lg_pc[th] = "slice"
    /\ lg_tmp' = [lg_tmp EXCEPT ![th] = LastN(lg_logs, MAX_LOG_ENTRIES)]
    /\ lg_pc' = [lg_pc EXCEPT ![th] = "store"]
    /\ UNCHANGED <<lg_logs, lg_recorded>>

\* Line 173, the assignment: task["logs"] = the new list.
LogStore(th) ==
    /\ lg_pc[th] = "store"
    /\ lg_logs' = lg_tmp[th]
    /\ lg_tmp' = [lg_tmp EXCEPT ![th] = <<>>]
    /\ lg_pc' = [lg_pc EXCEPT ![th] = "idle"]
    /\ UNCHANGED lg_recorded

\* create_task, line 104: "logs": [].
InitLogs ==
    /\ lg_logs = <<>>
    /\ lg_pc = [th \in Threads |-> "idle"]
    /\ lg_tmp = [th \in Threads |-> <<>>]
    /\ lg_recorded = 0

(***************************************************************************)
(* The tracker calls on one task with relational writes that may fail      *)
(* (TaskTracker.create_task, lines 73-122; update_task, lines 128-213).    *)
(***************************************************************************)
\* The tracker calls made on the task.
MaxCalls == 2

VARIABLES
    tk_cached,          \* the task is in _task_cache
    tk_entry,           \* its cache entry
    tk_stored,          \* the task has a row in table tasks
    tk_row,             \* that row
    tk_call,            \* the last tracker call: its arguments and its end
    tk_calls            \* the tracker calls made so far

trackerVars == <<tk_cached, tk_entry, tk_stored, tk_row, tk_call, tk_calls>>

\* A buggy handler that logs the failure of the relational write and raises
\* it again.
AfterDbWriteReraises(dbOk) == IF dbOk THEN "returned" ELSE "raised"

\* How a tracker call ends after its relational write: "except Exception"
\* of lines 117-118 (create_task) and 210-211 (update_task) logs a failure
\* and the call goes on to its return.
AfterDbWrite(dbOk) == "returned"

\* The statuses, progress values and messages the callers pass.
CallStatuses == {None, "running", "completed", "failed"}
CallProgress == {NoneP, 0, 50, 100}
CallMessages == {None, WorkerMessage}

\* TaskTracker.create_task with a fresh uuid: the cache entry of lines
\* 93-105, then the insert of lines 107-118.
TrackerCreate ==
    \E dbOk \in BOOLEAN :
    /\ tk_calls < MaxCalls
    /\ ~tk_cached
    /\ tk_cached' = TRUE
    /\ tk_entry' = NewCacheEntry
    /\ tk_stored' = (tk_stored \/ dbOk)
    /\ tk_row' = IF dbOk THEN NewTaskRow("h1") ELSE tk_row
    /\ tk_call' = [op |-> "create", status |-> None, progress |-> NoneP,
                   message |-> None, dbOk |-> dbOk, wrote |-> TRUE,
                   outcome |-> AfterDbWrite(dbOk)]
    /\ tk_calls' = tk_calls + 1

\* TaskTracker.update_task: the early return of lines 145-147, the
\* in-memory update of lines 149-179, then the write-through of lines
\* 181-211.
TrackerUpdate ==
    \E status \in CallStatuses, progress \in CallProgress,
       message \in CallMessages, dbOk \in BOOLEAN :
    /\ tk_calls < MaxCalls
    /\ tk_calls' = tk_calls + 1
    /\ IF ~tk_cached
       THEN /\ tk_call' = [op |-> "update", status |-> status,
                           progress |-> progress, message |-> message,
                           dbOk |-> dbOk, wrote |-> FALSE,
                           outcome |-> "returned"]
            /\ UNCHANGED <<tk_cached, tk_entry, tk_stored, tk_row>>
       ELSE /\ tk_entry' = CacheUpdate(tk_entry, status, progress, message,
                                       None)
            /\ tk_row' = IF dbOk /\ tk_stored
                         THEN RowUpdate(tk_row, status, progress, message,
                                        FALSE, tk_calls + 1)
                         ELSE tk_row
            /\ tk_call' = [op |-> "update", status |-> status,
                           progress |-> progress, message |-> message,
                           dbOk |-> dbOk, wrote |-> TRUE,
                           outcome |-> AfterDbWrite(dbOk)]
            /\ UNCHANGED <<tk_cached, tk_stored>>

\* No task yet and no call made.
InitTracker ==
    /\ tk_cached = FALSE
    /\ tk_entry = NewCacheEntry
    /\ tk_stored = FALSE
    /\ tk_row = NewTaskRow("h1")
    /\ tk_call = [op |-> "none", status |-> None, progress |-> NoneP,
                  message |-> None, dbOk |-> TRUE, wrote |-> FALSE,
                  outcome |-> "returned"]
    /\ tk_calls = 0

(***************************************************************************)
(* LLMClient.structured_completion (services/llm_client.py, lines          *)
(* 103-208): the retry loop, the native structured-output request and the  *)
(* JSON-mode fallback with its schema instruction.                         *)
(***************************************************************************)
\* The largest max_retries a caller passes (the default is 3).
MaxAttempts == 3

VARIABLES
    sc_pc,              \* "idle", "native", "fallback", "returned", "raised"
    sc_max_retries,     \* the argument max_retries
    sc_attempt,         \* the loop variable attempt
    sc_system_first,    \* the caller's messages[0] has role "system"
    sc_caller_instr,    \* schema instructions in the caller's messages[0]
    sc_caller_len,      \* len of the caller's message list
    sc_sent,            \* the requests sent, in order
    sc_result,          \* the attempt and the mode whose result was returned
    sc_caught,          \* the exception line 202 caught last
    sc_exc              \* the exception raised to the caller

scVars == <<sc_pc, sc_max_retries, sc_attempt, sc_system_first,
            sc_caller_instr, sc_caller_len, sc_sent, sc_result, sc_caught,
            sc_exc>>

NoAttempt == [attempt |-> NoneP, mode |-> "none"]
NoException == [attempt |-> NoneP, kind |-> "none"]

\* What lines 175-187 can raise: the JSON-mode request, json.loads on its
\* content, or model_validate on the parsed JSON.
FallbackErrors == {"request", "JSONDecodeError", "ValidationError"}

\* A request as the provider sees it: the attempt, the mode, the schema
\* instructions in its messages and the number of its messages.
Request(attempt, mode, instr, len) ==
    [attempt |-> attempt, mode |-> mode, instr |-> instr, len |-> len]

\* Lines 141-146: the native request carries the caller's list as it is now.
NativeRequest(attempt) ==
    Request(attempt, "native", sc_caller_instr, sc_caller_len)

\* A copy that also copies the messages (copy.deepcopy): the caller's first
\* message is not touched.
CopyDeep(system_first) == FALSE

\* Line 156, messages.copy(): a new list of the same message dicts, so
\* enhanced_messages[0] is the caller's messages[0] whenever line 162
\* appends to it.
CopySharesFirst(system_first) == system_first

\* A call with a message list of two messages, with or without a leading
\* system message; with max_retries = 0 the loop body never runs and line
\* 208 raises RuntimeError.
StructuredCall ==
    \E retries \in 0..MaxAttempts, system_first \in BOOLEAN :
    /\ sc_pc = "idle"
    /\ sc_max_retries' = retries
    /\ sc_system_first' = system_first
    /\ sc_attempt' = 0
    /\ UNCHANGED <<sc_caller_instr, sc_caller_len, sc_result, sc_caught>>
    /\ IF retries = 0
       THEN /\ sc_pc' = "raised"
            /\ sc_exc' = [attempt |-> NoneP, kind |-> "RuntimeError"]
            /\ UNCHANGED sc_sent
       ELSE /\ sc_pc' = "native"
            /\ sc_sent' = Append(sc_sent, NativeRequest(0))
            /\ UNCHANGED sc_exc

\* Lines 147 and 189-200: the native request answers and its parsed
\* message is returned.
NativeReturns ==
    /\ sc_pc = "native"
    /\ sc_pc' = "returned"
    /\ sc_result' = [attempt |-> sc_attempt, mode |-> "native"]
    /\ UNCHANGED <<sc_max_retries, sc_attempt, sc_system_first,
                   sc_caller_instr, sc_caller_len, sc_sent, sc_caught,
                   sc_exc>>

\* Lines 149-180: the native request raises; the fallback copies the list,
\* adds the schema instruction to its first message or inserts a system
\* message, and sends the JSON-mode request.
NativeRaises ==
    /\ sc_pc = "native"
    /\ sc_pc' = "fallback"
    /\ LET shared == CopySharesFirst(sc_system_first)
           instr == IF sc_system_first THEN sc_caller_instr + 1 ELSE 1
           len == IF sc_system_first THEN sc_caller_len
                  ELSE sc_caller_len + 1
       IN  /\ sc_caller_instr' = IF shared THEN sc_caller_instr + 1
                                 ELSE sc_caller_instr
           /\ sc_sent' = Append(sc_sent,
                                Request(sc_attempt, "fallback", instr, len))
    /\ UNCHANGED <<sc_max_retries, sc_attempt, sc_system_first,
                   sc_caller_len, sc_result, sc_caught, sc_exc>>

\* Lines 182-200: the JSON-mode request answers with JSON that validates.
FallbackReturns ==
    /\ sc_pc = "fallback"
    /\ sc_pc' = "returned"
    /\ sc_result' = [attempt |-> sc_attempt, mode |-> "fallback"]
    /\ UNCHANGED <<sc_max_retries, sc_attempt, sc_system_first,
                   sc_caller_instr, sc_caller_len, sc_sent, sc_caught,
                   sc_exc>>

\* A buggy loop end that raises one attempt early.
LastAttemptEarly(attempt, retries) == attempt >= retries - 2

\* Line 204: attempt == max_retries - 1.
LastAttempt(attempt, retries) == attempt = retries - 1

\* Lines 175-187 raise (the request, json.loads or model_validate), and
\* lines 202-206: the last attempt raises it again, any other goes round
\* the loop to the next native request.
FallbackRaises ==
    \E kind \in FallbackErrors :
    /\ sc_pc = "fallback"
    /\ sc_caught' = [attempt |-> sc_attempt, kind |-> kind]
    /\ IF LastAttempt(sc_attempt, sc_max_retries)
       THEN /\ sc_pc' = "raised"
            /\ sc_exc' = sc_caught'
            /\ UNCHANGED <<sc_attempt, sc_sent>>
       ELSE /\ sc_pc' = "native"
            /\ sc_attempt' = sc_attempt + 1
            /\ sc_sent' = Append(sc_sent, NativeRequest(sc_attempt + 1))
            /\ UNCHANGED sc_exc
    /\ UNCHANGED <<sc_max_retries, sc_system_first, sc_caller_instr,
                   sc_caller_len, sc_result>>

\* The caller's list before the call: clause_extractor.py 89-95 builds a
\* system message and a user message, neither with a schema instruction.
InitStructured ==
    /\ sc_pc = "idle"
    /\ sc_max_retries = 0
    /\ sc_attempt = 0
    /\ sc_system_first = TRUE
    /\ sc_caller_instr = 0
    /\ sc_caller_len = 2
    /\ sc_sent = <<>>
    /\ sc_result = NoAttempt
    /\ sc_caught = NoException
    /\ sc_exc = NoException

(***************************************************************************)
(* The files of the tasks: the uploaded PDF (temp/uploads/<file name>),    *)
(* the content-extraction output (mineru_output/<task id>/<stem>) and the  *)
(* debug snapshots (middle_json/<stem>_<uuid>.json).                       *)
(***************************************************************************)
\* The file names a client uploads under.
FileNames == {"a.pdf", "b.pdf"}

VARIABLES
    fs_tasks,           \* per task: its file name, file hash and position
    fs_pdf,             \* temp/uploads: file name -> the hash of its bytes
    fs_mineru,          \* mineru_output: the tasks whose directory exists
    fs_snap,            \* middle_json: the snapshots, by stem and writer
    fs_harm             \* file operations that hit a file of another task

fileVars == <<fs_tasks, fs_pdf, fs_mineru, fs_snap, fs_harm>>

NoFile == [name |-> None, hash |-> None, at |-> "none"]

\* The tasks that exist and are not deleted, other than t, uploaded under
\* this file name.
OthersNamed(t, name) ==
    {u \in TaskIds \ {t} :
        fs_tasks[u].at \in {"created", "ran"} /\ fs_tasks[u].name = name}

\* analyze_document, lines 345-380, for a document with no reusable task:
\* the bytes are written to temp/uploads/<file.filename>, the task is
\* created with that path and its job is scheduled.
FileUpload ==
    \E t \in TaskIds, h \in Hashes, name \in FileNames :
    /\ fs_tasks[t].at = "none"
    /\ \A u \in TaskIds : u < t => fs_tasks[u].at # "none"
    /\ \A u \in TaskIds :
          fs_tasks[u].at \in {"created", "ran"} => fs_tasks[u].hash # h
    /\ fs_pdf' = [fs_pdf EXCEPT ![name] = h]
    /\ fs_tasks' = [fs_tasks EXCEPT
                        ![t] = [name |-> name, hash |-> h, at |-> "created"]]
    /\ fs_harm' = fs_harm \cup
            {[victim |-> u, actor |-> t, file |-> "pdf", by |-> "upload"] :
                u \in OthersNamed(t, name)}
    /\ UNCHANGED <<fs_mineru, fs_snap>>

\* The run of a task: MinerU writes mineru_output/<task_id>/<stem>
\* (mineru_client.py 134-145) and parser_sync saves the snapshot
\* middle_json/<stem>_<uuid>.json (workflow.py 298-326).
FileRun ==
    \E t \in TaskIds :
    /\ fs_tasks[t].at = "created"
    /\ fs_tasks' = [fs_tasks EXCEPT ![t].at = "ran"]
    /\ fs_mineru' = fs_mineru \cup {t}
    /\ fs_snap' = fs_snap \cup {[stem |-> fs_tasks[t].name, writer |-> t]}
    /\ UNCHANGED <<fs_pdf, fs_harm>>

\* TaskCleanupService.delete_mineru_output, lines 61-82: the directory
\* named by the task id if it exists; otherwise the first directory of any
\* task that holds a folder of this PDF name, removed whole.
delete_mineru_output(t, name) ==
    IF t \in fs_mineru THEN {t}
    ELSE LET holding == {u \in fs_mineru : fs_tasks[u].name = name}
         IN  holding

\* TaskCleanupService.delete_middle_json, lines 101-115: every snapshot
\* matching <pdf_name>_*.json.
delete_middle_json(t, name) == {f \in fs_snap : f.stem = name}

\* DELETE /task/{task_id}, lines 629-646, through cleanup_task
\* (task_cleanup.py 182-238): the local PDF at the task's pdf_path, the
\* MinerU output, the snapshots.
FileDelete ==
    \E t \in TaskIds :
    /\ fs_tasks[t].at \in {"created", "ran"}
    /\ LET name == fs_tasks[t].name
           dirs == delete_mineru_output(t, name)
           snaps == delete_middle_json(t, name)
       IN  \E d \in IF dirs = {} THEN {NoneP} ELSE dirs :
           /\ fs_pdf' = [fs_pdf EXCEPT ![name] = None]
           /\ fs_mineru' = fs_mineru \ {d}
           /\ fs_snap' = fs_snap \ snaps
           /\ fs_harm' = fs_harm
                \cup {[victim |-> u, actor |-> t, file |-> "pdf",
                       by |-> "delete"] :
                        u \in IF fs_pdf[name] # None
                              THEN OthersNamed(t, name) ELSE {}}
                \cup {[victim |-> u, actor |-> t, file |-> "mineru_output",
                       by |-> "delete"] : u \in {d} \ {t, NoneP}}
                \cup {[victim |-> f.writer, actor |-> t,
                       file |-> "middle_json", by |-> "delete"] :
                        f \in {g \in snaps : g.writer # t}}
    /\ fs_tasks' = [fs_tasks EXCEPT ![t].at = "deleted"]

\* No task and no file.
InitFiles ==
    /\ fs_tasks = [t \in TaskIds |-> NoFile]
    /\ fs_pdf = [n \in FileNames |-> None]
    /\ fs_mineru = {}
    /\ fs_snap = {}
    /\ fs_harm = {}

(***************************************************************************)
(* The two stores of one running task under the tracker updates of the     *)
(* worker threads: TaskTracker.update_task writes the cache entry (lines   *)
(* 149-179) and then the row (lines 182-198), with no lock around the two. *)
(***************************************************************************)
\* The tracker updates the worker threads issue between them.
MaxUpdates == 3

VARIABLES
    sy_entry,           \* the cache entry's status and progress
    sy_row,             \* the row's status and progress
    sy_pc,              \* per thread: "idle", or "db" between its two writes
    sy_arg,             \* per thread: the progress its call passes
    sy_updates          \* the calls issued so far

syncVars == <<sy_entry, sy_row, sy_pc, sy_arg, sy_updates>>

\* The progress values the parallel graph nodes pass (update_progress after
\* its clamp, TaskTracker.log_progress).
SyncProgress == {5, 10, 50}

\* A thread calls update_task(task_id, progress=p, message=...): the
\* in-memory update.
SyncCacheWrite(th) ==
    \E p \in SyncProgress :
    /\ sy_pc[th] = "idle"
    /\ sy_updates < MaxUpdates
    /\ sy_updates' = sy_updates + 1
    /\ sy_entry' = [sy_entry EXCEPT !.progress = p]
    /\ sy_arg' = [sy_arg EXCEPT ![th] = p]
    /\ sy_pc' = [sy_pc EXCEPT ![th] = "db"]
    /\ UNCHANGED sy_row

\* The same call's write-through: TaskRepository.update_task_status sets
\* the row's progress to the argument and commits (crud.py 63-92); the
\* write succeeds and the call returns.
SyncRowWrite(th) ==
    /\ sy_pc[th] = "db"
    /\ sy_row' = [sy_row EXCEPT !.progress = sy_arg[th]]
    /\ sy_pc' = [sy_pc EXCEPT ![th] = "idle"]
    /\ UNCHANGED <<sy_entry, sy_arg, sy_updates>>

\* The task after the job's first update: running at progress 0 in both
\* stores.
InitSync ==
    /\ sy_entry = [status |-> "running", progress |-> 0]
    /\ sy_row = [status |-> "running", progress |-> 0]
    /\ sy_pc = [th \in Threads |-> "idle"]
    /\ sy_arg = [th \in Threads |-> NoneP]
    /\ sy_updates = 0

(***************************************************************************)
(* GET /download/excel/{task_id} (download_excel) and a restart of the     *)
(* serving process, which empties the module-level cache.                  *)
(***************************************************************************)
VARIABLES
    dl_response         \* the answer of the last download request

downloadVars == <<dl_response>>

\* No download was requested yet.
NoDownload == [task_id |-> 0, code |-> 0, persisted |-> FALSE]

\* The row of t says completed and carries a document tree.
TreePersisted(t) ==
    /\ t \in DOMAIN db_tasks
    /\ db_tasks[t].status = "completed"
    /\ db_tasks[t].document_tree_json

\* Lines 546-550: the tree is taken from task["result"] only.
HasDocumentTree(task, t) == task.result # None

\* The status code download_excel answers with for the entry get_task
\* returned (lines 540-570); a tree that is found is exported.
download_excel(cache, t) ==
    IF t \notin DOMAIN cache THEN 404
    ELSE IF cache[t].status # "completed" THEN 400
    ELSE IF ~HasDocumentTree(cache[t], t) THEN 404
    ELSE 200

\* The request: TaskTracker.get_task (which rehydrates a missing entry from
\* the row) and then the answer.  persisted records whether the task's row
\* was completed with a tree when the request was served.
DownloadExcel ==
    \E t \in TaskIds :
    /\ task_cache' = get_task(task_cache, t)
    /\ dl_response' = [task_id |-> t,
                       code |-> download_excel(task_cache', t),
                       persisted |-> TreePersisted(t)]
    /\ UNCHANGED apiNotCache

\* The serving process restarts: the cache starts empty (task_tracker.py
\* line 28), the jobs that were scheduled or running are gone, the
\* relational store is kept.
Restart ==
    /\ DOMAIN task_cache # {}
    /\ task_cache' = <<>>
    /\ bg' = [t \in TaskIds |-> IF bg[t] \in {"scheduled", "invoking"}
                                THEN "none" ELSE bg[t]]
    /\ UNCHANGED <<db_tasks, db_logs, db_sections, db_clauses, next_uuid,
                   clock, run_exc, faults, file_of, last_response, deleted>>
    /\ UNCHANGED dl_response

InitDownload == dl_response = NoDownload

(***************************************************************************)
(* Specifications.                                                         *)
(***************************************************************************)
vars == <<apiVars, flowVars, llmVars, streamVars, titleVars, resultVars,
          repoVars, stageVars,
    logVars,
    trackerVars,
    scVars,
    fileVars,
    syncVars,
    downloadVars>>

InitApi ==
    /\ task_cache = <<>>
    /\ db_tasks = <<>>
    /\ db_logs = [t \in TaskIds |-> FALSE]
    /\ db_sections = [t \in TaskIds |-> FALSE]
    /\ db_clauses = [t \in TaskIds |-> FALSE]
    /\ next_uuid = 1
    /\ clock = 0
    /\ bg = [t \in TaskIds |-> "none"]
    /\ run_exc = [t \in TaskIds |-> None]
    /\ faults = 0
    /\ file_of = [t \in TaskIds |-> None]
    /\ last_response = [task_id |-> 0, reused |-> FALSE]
    /\ deleted = {}

\* The title of the runs that call normalize_title; the other runs never
\* look at it.
NoTitle == title = <<>> /\ once = <<>> /\ twice = <<>> /\ nt_calls = 0

Init ==
    /\ InitApi /\ InitFlow /\ InitLLM /\ InitStream /\ NoTitle /\ InitResult
    /\ InitRepo /\ InitStage
    /\ InitLogs
    /\ InitTracker
    /\ InitStructured
    /\ InitFiles
    /\ InitSync
    /\ InitDownload

\* The variables the API layer's own actions leave alone.
notApi == <<flowVars, llmVars, streamVars, titleVars, resultVars,
    repoVars, stageVars,
    logVars,
    trackerVars,
    scVars,
    fileVars,
    syncVars,
    downloadVars>>

\* The API layer with a relational store whose writes may fail (at most
\* MaxFaults times in a behaviour); the workflow is a black box.
NextApiFaults ==
    \/ Analyze(BOOLEAN) /\ UNCHANGED notApi
    \/ PipelineStart(BOOLEAN) /\ UNCHANGED notApi
    \/ WorkerUpdate(BOOLEAN) /\ UNCHANGED notApi
    \/ PipelineFinish(BOOLEAN, WorkflowResults) /\ UNCHANGED notApi
    \/ DeleteTask /\ UNCHANGED notApi

SpecApiFaults == Init /\ [][NextApiFaults]_vars

\* The API layer with a relational store that never fails.
NextApi ==
    \/ Analyze({TRUE}) /\ UNCHANGED notApi
    \/ PipelineStart({TRUE}) /\ UNCHANGED notApi
    \/ WorkerUpdate({TRUE}) /\ UNCHANGED notApi
    \/ PipelineFinish({TRUE}, WorkflowResults) /\ UNCHANGED notApi
    \/ DeleteTask /\ UNCHANGED notApi

SpecApi == Init /\ [][NextApi]_vars

\* The variables the workflow's own actions leave alone.
notFlow == <<llmVars, streamVars, titleVars, resultVars,
    repoVars, stageVars,
    logVars,
    trackerVars,
    scVars,
    fileVars,
    syncVars,
    downloadVars>>

\* One uploaded document analysed by the workflow, node by node; the write
\* that records the outcome may fail.
NextFlow ==
    \/ Analyze({TRUE}) /\ (\A t \in TaskIds : bg[t] = "none")
                       /\ UNCHANGED notApi
    \/ PipelineStart({TRUE}) /\ UNCHANGED notApi
    \/ Invoke /\ UNCHANGED notFlow
    \/ (\E n \in DOMAIN Targets : ProgressRead(n)) /\ UNCHANGED notFlow
    \/ (\E n \in DOMAIN Targets : ProgressWrite(n)) /\ UNCHANGED notFlow
    \/ StructureParserFails /\ UNCHANGED notFlow
    \/ StructureParserReturns(Outlines) /\ UNCHANGED notFlow
    \/ MineruParserFails /\ UNCHANGED notFlow
    \/ MineruParserReturns /\ UNCHANGED notFlow
    \/ ParserSyncReturns /\ UNCHANGED notFlow
    \/ TextFiller /\ UNCHANGED notFlow
    \/ TextFillSync /\ UNCHANGED notFlow
    \/ ClauseExtractor({0}) /\ UNCHANGED notFlow
    \/ ClauseAggregator /\ UNCHANGED notFlow
    \/ ClauseLocator /\ UNCHANGED notFlow
    \/ Advance /\ UNCHANGED notFlow
    \/ GraphRaises /\ UNCHANGED notFlow
    \/ PipelineFinish(BOOLEAN, FlowResults) /\ UNCHANGED notApi
    \/ DeleteTask /\ UNCHANGED notApi

SpecFlow == Init /\ [][NextFlow]_vars

\* One uploaded document of at most MaxSections outline nodes analysed by
\* the workflow, with the clauses its extractors return; nothing fails but
\* the parsers and the extractions, and the task is not deleted.
NextMatrix ==
    \/ Analyze({TRUE}) /\ (\A t \in TaskIds : bg[t] = "none")
                       /\ UNCHANGED notApi
    \/ PipelineStart({TRUE}) /\ UNCHANGED notApi
    \/ Invoke /\ UNCHANGED notFlow
    \/ (\E n \in DOMAIN Targets : ProgressRead(n)) /\ UNCHANGED notFlow
    \/ (\E n \in DOMAIN Targets : ProgressWrite(n)) /\ UNCHANGED notFlow
    \/ StructureParserFails /\ UNCHANGED notFlow
    \/ StructureParserReturns(SmallOutlines) /\ UNCHANGED notFlow
    \/ MineruParserFails /\ UNCHANGED notFlow
    \/ MineruParserReturns /\ UNCHANGED notFlow
    \/ ParserSyncReturns /\ UNCHANGED notFlow
    \/ TextFiller /\ UNCHANGED notFlow
    \/ TextFillSync /\ UNCHANGED notFlow
    \/ ClauseExtractor(0..MaxClauses) /\ UNCHANGED notFlow
    \/ ClauseAggregator /\ UNCHANGED notFlow
    \/ ClauseLocator /\ UNCHANGED notFlow
    \/ Advance /\ UNCHANGED notFlow
    \/ PipelineFinish({TRUE}, FlowResults) /\ UNCHANGED notApi

SpecMatrix == Init /\ [][NextMatrix]_vars

\* The variables a completion wrapper leaves alone.
notLLM == <<apiVars, flowVars, streamVars, titleVars, resultVars,
    repoVars, stageVars,
    logVars,
    trackerVars,
    scVars,
    fileVars,
    syncVars,
    downloadVars>>

\* One call of a completion wrapper.
NextLLM ==
    \/ Call /\ UNCHANGED notLLM
    \/ AttemptSucceeds /\ UNCHANGED notLLM
    \/ AttemptRateLimited /\ UNCHANGED notLLM
    \/ AttemptFails /\ UNCHANGED notLLM

SpecLLM == Init /\ [][NextLLM]_vars

\* Every completion request comes back (the client's network timeout) and
\* every sleep(1) ends, so a pass of the loop that can be made is made.
SpecLLMFair ==
    SpecLLM /\ WF_vars((AttemptSucceeds \/ AttemptRateLimited \/ AttemptFails)
                            /\ UNCHANGED notLLM)

\* The variables the progress stream leaves alone.
notStream == <<flowVars, llmVars, titleVars, resultVars,
    repoVars, stageVars,
    logVars,
    trackerVars,
    scVars,
    fileVars,
    syncVars,
    downloadVars>>

\* One uploaded document, its background job and one progress stream.
NextStream ==
    \/ Analyze({TRUE}) /\ (\A t \in TaskIds : bg[t] = "none")
                       /\ UNCHANGED notApi
    \/ PipelineStart({TRUE}) /\ UNCHANGED notApi
    \/ WorkerUpdate({TRUE}) /\ UNCHANGED notApi
    \/ PipelineFinish({TRUE}, WorkflowResults) /\ UNCHANGED notApi
    \/ DeleteTask /\ UNCHANGED notApi
    \/ OpenStream /\ UNCHANGED notStream
    \/ Poll /\ UNCHANGED notStream
    \/ Sleep /\ UNCHANGED notStream
    \/ CloseStream /\ UNCHANGED notStream

SpecStream == Init /\ [][NextStream]_vars

\* The event loop resumes the generator after every sleep and every event
\* the client takes, so a step of the stream that can be made is made.
SpecStreamFair ==
    SpecStream /\ WF_vars((Poll \/ Sleep \/ CloseStream) /\ UNCHANGED notStream)

\* The variables normalize_title leaves alone.
notTitle == <<apiVars, flowVars, llmVars, streamVars, resultVars,
    repoVars, stageVars,
    logVars,
    trackerVars,
    scVars,
    fileVars,
    syncVars,
    downloadVars>>

\* normalize_title applied to a title and to its own result.
NextTitle ==
    \/ NormalizeTitle /\ UNCHANGED notTitle
    \/ NormalizeAgain /\ UNCHANGED notTitle

\* A run that starts with a title to normalize.
InitWithTitle ==
    /\ InitApi /\ InitFlow /\ InitLLM /\ InitStream /\ InitTitle
    /\ InitResult /\ InitRepo /\ InitStage
    /\ InitLogs
    /\ InitTracker
    /\ InitStructured
    /\ InitFiles
    /\ InitSync
    /\ InitDownload

SpecTitle == InitWithTitle /\ [][NextTitle]_vars

\* The variables the result handling leaves alone.
notResult == <<apiVars, flowVars, llmVars, streamVars, titleVars,
    repoVars, stageVars,
    logVars,
    trackerVars,
    scVars,
    fileVars,
    syncVars,
    downloadVars>>

\* The end of one analysis and the result query that follows it.
NextResult ==
    \/ WorkflowReturns /\ UNCHANGED notResult
    \/ CachePageDimensions /\ UNCHANGED notResult
    \/ PersistAnalysisResults /\ UNCHANGED notResult
    \/ CompleteWithTree /\ UNCHANGED notResult
    \/ GetTaskResult /\ UNCHANGED notResult

SpecResult == Init /\ [][NextResult]_vars

\* The variables the repository operations on the counters leave alone.
notRepo == <<apiVars, flowVars, llmVars, streamVars, titleVars, resultVars,
    stageVars,
    logVars,
    trackerVars,
    scVars,
    fileVars,
    syncVars,
    downloadVars>>

\* Any sequence of the repository operations that create a task row and
\* write its counters.
NextRepo ==
    \/ RepoCreateTask /\ UNCHANGED notRepo
    \/ UpdateTaskStats /\ UNCHANGED notRepo
    \/ UpdateTaskGeneric /\ UNCHANGED notRepo

SpecRepo == Init /\ [][NextRepo]_vars

\* The variables a stage invocation leaves alone.
notStage == <<apiVars, flowVars, llmVars, streamVars, titleVars, resultVars,
    repoVars,
    logVars,
    trackerVars,
    scVars,
    fileVars,
    syncVars,
    downloadVars>>

\* Any sequence of invocations of the six stage functions on any input
\* states.
NextStage ==
    \/ InvokeStage("structure_parser") /\ UNCHANGED notStage
    \/ InvokeStage("mineru_parser") /\ UNCHANGED notStage
    \/ InvokeStage("text_filler") /\ UNCHANGED notStage
    \/ InvokeStage("clause_extractor") /\ UNCHANGED notStage
    \/ InvokeStage("clause_aggregator") /\ UNCHANGED notStage
    \/ InvokeStage("clause_locator") /\ UNCHANGED notStage

SpecStage == Init /\ [][NextStage]_vars

\* The variables the updates of the log list leave alone.
notLogs == <<apiVars, flowVars, llmVars, streamVars, titleVars, resultVars,
    repoVars, stageVars,
    trackerVars,
    scVars,
    fileVars,
    syncVars,
    downloadVars>>

\* The worker threads of one task recording messages, their steps
\* interleaved.
NextLogs ==
    \/ (\E th \in Threads : LogAppend(th)) /\ UNCHANGED notLogs
    \/ (\E th \in Threads : LogCheck(th)) /\ UNCHANGED notLogs
    \/ (\E th \in Threads : LogSlice(th)) /\ UNCHANGED notLogs
    \/ (\E th \in Threads : LogStore(th)) /\ UNCHANGED notLogs

SpecLogs == Init /\ [][NextLogs]_vars

\* The variables the tracker calls on the one task leave alone.
notTracker == <<apiVars, flowVars, llmVars, streamVars, titleVars, resultVars,
    repoVars, stageVars, logVars,
    scVars,
    fileVars,
    syncVars,
    downloadVars>>

\* Any sequence of tracker calls on one task, each relational write failing
\* or not.
NextTracker ==
    \/ TrackerCreate /\ UNCHANGED notTracker
    \/ TrackerUpdate /\ UNCHANGED notTracker

SpecTracker == Init /\ [][NextTracker]_vars

\* The variables structured_completion leaves alone.
notStructured == <<apiVars, flowVars, llmVars, streamVars, titleVars, resultVars,
    repoVars, stageVars, logVars, trackerVars,
    fileVars,
    syncVars,
    downloadVars>>

\* One call of structured_completion.
NextStructured ==
    \/ StructuredCall /\ UNCHANGED notStructured
    \/ NativeReturns /\ UNCHANGED notStructured
    \/ NativeRaises /\ UNCHANGED notStructured
    \/ FallbackReturns /\ UNCHANGED notStructured
    \/ FallbackRaises /\ UNCHANGED notStructured

SpecStructured == Init /\ [][NextStructured]_vars

\* The variables the file operations leave alone.
notFiles == <<apiVars, flowVars, llmVars, streamVars, titleVars,
    resultVars, repoVars, stageVars, logVars, trackerVars,
    scVars,
    syncVars,
    downloadVars>>

\* Uploads, runs and deletions of tasks and what they do to the files.
NextFiles ==
    \/ FileUpload /\ UNCHANGED notFiles
    \/ FileRun /\ UNCHANGED notFiles
    \/ FileDelete /\ UNCHANGED notFiles

SpecFiles == Init /\ [][NextFiles]_vars

\* The variables the two writes of a tracker update leave alone.
notSync == <<apiVars, flowVars, llmVars, streamVars, titleVars,
    resultVars, repoVars, stageVars, logVars, trackerVars,
    scVars, fileVars,
    downloadVars>>

\* The worker threads of one task issuing tracker updates, their writes
\* interleaved.
NextSync ==
    \/ (\E th \in Threads : SyncCacheWrite(th)) /\ UNCHANGED notSync
    \/ (\E th \in Threads : SyncRowWrite(th)) /\ UNCHANGED notSync

SpecSync == Init /\ [][NextSync]_vars

\* The variables the download endpoint and a restart leave alone.
notDownload == <<flowVars, llmVars, streamVars, titleVars, resultVars,
    repoVars, stageVars, logVars, trackerVars, scVars,
    fileVars, syncVars>>

\* The API layer with a relational store that never fails, restarts of the
\* serving process and download requests.
NextDownload ==
    \/ Analyze({TRUE}) /\ UNCHANGED notApi
    \/ PipelineStart({TRUE}) /\ UNCHANGED notApi
    \/ WorkerUpdate({TRUE}) /\ UNCHANGED notApi
    \/ PipelineFinish({TRUE}, WorkflowResults) /\ UNCHANGED notApi
    \/ DeleteTask /\ UNCHANGED notApi
    \/ DownloadExcel /\ UNCHANGED notDownload
    \/ Restart /\ UNCHANGED notDownload

SpecDownload == Init /\ [][NextDownload]_vars

(***************************************************************************)
(* Properties.                                                             *)
(***************************************************************************)

\* C1: whenever POST /analyze answers an upload whose hash belongs to a task
\* that has not yet reached completed or failed, the response carries that
\* task's id with reused = true and no background job is scheduled.
C1_ReusesUnfinishedTask ==
    [][last_response' # last_response \/ next_uuid' # next_uuid =>
        LET h == file_of'[last_response'.task_id]
        IN  StillRunning(h) # {} =>
                /\ last_response'.reused
                /\ last_response'.task_id \in StillRunning(h)
                /\ bg' = bg]_vars

\* C4: for every task id whose DELETE has succeeded, the sections, clauses
\* and logs tables hold no row with that id and the cache holds no entry.
C4_NothingLeftAfterDelete ==
    \A t \in deleted :
        /\ ~db_sections[t]
        /\ ~db_clauses[t]
        /\ ~db_logs[t]
        /\ t \notin DOMAIN task_cache

\* The status steps a task may take.
StatusSteps ==
    {<<"pending", "running">>, <<"running", "completed">>,
     <<"running", "failed">>}

RunFailed(t) ==
    /\ bg[t] \in {"done", "crashed"}
    /\ \/ run_exc[t] \in {"error_message", "raised", "persist"}
       \/ wf_task_id = t /\ (error_message # {} \/ wf = "raised")

\* C7: no exception escapes the background job, and when a run has ended in
\* failure (a parser failed, or an exception was raised) its task, as long
\* as it has not been deleted, has status failed and the failure message.
C7_FailureIsRecorded ==
    \A t \in TaskIds :
        /\ bg[t] # "crashed"
        /\ (RunFailed(t) /\ t \in DOMAIN task_cache) =>
                /\ task_cache[t].status = "failed"
                /\ task_cache[t].message = "Analysis failed"

\* C7, witness: a run in which the content parser failed has ended and its
\* task is failed.
C7_Witness ==
    \E t \in DOMAIN task_cache :
        /\ bg[t] = "done"
        /\ wf_task_id = t
        /\ "mineru_parser" \in error_message
        /\ task_cache[t].status = "failed"

\* The text-filler Sends dispatched so far, and the clause-extractor Sends.
SentTo(node) == {s \in sent : s.node = node}

\* C2: text-filler tasks are dispatched only when both parsers have returned,
\* and clause-extractor tasks only when every dispatched text-filler task
\* has returned.
C2_BarriersHold ==
    /\ SentTo("text_filler") # {} =>
            \A n \in StartNodes : Task(n, 0, 0) \notin wf_tasks
    /\ SentTo("clause_extractor") # {} =>
            /\ \A s \in SentTo("text_filler") : s \notin wf_tasks
            /\ {s.arg : s \in SentTo("text_filler")} \subseteq filled

\* C2, witness: the extractors of a tree of at least three nodes have been
\* dispatched.
C2_Witness ==
    /\ Len(pageindex_document) >= 3
    /\ SentTo("clause_extractor") # {}
    /\ filled = DOMAIN pageindex_document

\* C3: the clause-extractor router runs at most once in a run; when it has
\* run, there is exactly one clause_extractor Send per leaf and none for any
\* other node; and a run that dispatched its text fillers and ended has run
\* it exactly once.
C3_OneFanOutPerRun ==
    /\ fan_calls.clause_extractor <= 1
    /\ fan_calls.clause_extractor = 1 =>
        \A i \in DOMAIN pageindex_document :
            Cardinality({s \in SentTo("clause_extractor") : s.arg = i}) =
                IF is_leaf(pageindex_document, i) THEN 1 ELSE 0
    /\ (wf = "end" /\ SentTo("text_filler") # {}) =>
            fan_calls.clause_extractor = 1

\* C3, witness: a finished run over a tree of 5 nodes, 2 of them leaves,
\* with one fan-out and 2 dispatches.
C3_Witness ==
    /\ wf = "end"
    /\ Len(pageindex_document) = 5
    /\ Cardinality(get_all_leaf_nodes(pageindex_document)) = 2
    /\ fan_calls.clause_extractor = 1
    /\ Cardinality(SentTo("clause_extractor")) = 2
    /\ extracted = get_all_leaf_nodes(pageindex_document)

\* C5: no step lowers the progress stored for a task.
C5_ProgressNeverDecreases ==
    [][\A t \in DOMAIN task_cache \cap DOMAIN task_cache' :
            task_cache'[t].progress >= task_cache[t].progress]_vars

\* C8: in every wrapper, the attempt that follows a rate-limited attempt is
\* made on the next model of the list, and a model that was rate-limited is
\* never attempted again.
C8_RateLimitSwitchesModel ==
    [][/\ (attempts' # attempts /\ last.outcome \in {"429", "rate", "quota"}) =>
            model_idx = last.model + 1
       /\ \A m \in DOMAIN attempts :
            limited_at[m] > 0 => attempts'[m] = limited_at[m]]_vars

\* C8, witness: the primary model was rate-limited on its third attempt and
\* the first fallback has been attempted.
C8_Witness ==
    /\ limited_at[0] = 3
    /\ attempts[0] = 3
    /\ attempts[1] >= 1

\* The completion requests a call has made to the models 0..m.
RECURSIVE TotalAttempts(_)
TotalAttempts(m) == IF m < 0 THEN 0 ELSE attempts[m] + TotalAttempts(m - 1)

\* C9: a call in progress ends; it makes at most 10 x (1 + fallbacks)
\* attempts, no model gets more than 10 attempts, a model
\* is attempted only when every model before it was rate-limited or got its
\* 10 attempts, the models behind the current one are untouched, and the
\* sentinel is returned exactly when the last model's 10th attempt failed
\* with another error than a rate limit.
C9_CallTerminates ==
    /\ [](TotalAttempts(MaxFallbacks) <= max_retries * all_models)
    /\ [](\A m \in DOMAIN attempts :
            /\ attempts[m] <= max_retries
            /\ (llm_pc = "attempt" /\ m > model_idx) => attempts[m] = 0
            /\ (m < model_idx \/ (m = model_idx /\ llm_result = ErrorSentinel(llm_fn)))
                 => (limited_at[m] > 0 \/ attempts[m] = max_retries))
    /\ [](llm_result = ErrorSentinel(llm_fn) =>
            /\ llm_pc = "returned"
            /\ model_idx = all_models - 1
            /\ last = [model |-> model_idx, outcome |-> "other"])
    /\ (llm_pc = "attempt" ~> llm_pc \in {"returned", "raised"})

\* C9, witness: with two fallbacks, every model got 10 attempts and the call
\* returned the sentinel.
C9_Witness ==
    /\ llm_pc = "returned"
    /\ llm_result = ErrorSentinel(llm_fn)
    /\ all_models = 3
    /\ \A m \in 0..2 : attempts[m] = max_retries /\ limited_at[m] = 0

\* C10: an open stream ends; it never polls more than 600 times, and once a
\* poll has observed the status completed or failed the loop is over.
C10_StreamEnds ==
    /\ [](polls <= max_polls)
    /\ [](sse_pc \in {"poll", "sleep"} => sse_seen \notin {"completed", "failed"})
    /\ (sse_pc # "idle" ~> sse_pc = "done")

\* C10, witness: a stream that has ended after 600 polls of a task that was
\* still running.
C10_Witness ==
    /\ sse_pc = "done"
    /\ polls = max_polls
    /\ sse_seen = "running"

\* C10, witness of the early end: the stream ended on a poll that observed
\* a failed task.
C10_WitnessTerminal ==
    /\ sse_pc = "done"
    /\ polls < max_polls
    /\ sse_seen = "failed"

\* C11: however the loop of the progress stream is left (a terminal status
\* was observed, the 600 polls are used up, or the task is missing), the
\* stream then emits the done sentinel, the sentinel is the last event of
\* the ended stream, and the stream emits it exactly once.
C11_DoneSentinelLast ==
    /\ [](sse_dones <= 1)
    /\ [](sse_pc = "done" =>
            /\ sse_event = "done"
            /\ sse_dones = 1
            /\ sse_exit \in {"missing", "terminal", "limit"})
    /\ [](sse_pc # "done" => sse_dones = 0)
    /\ (sse_exit # None ~> (sse_pc = "done" /\ sse_event = "done"))

\* C11, witness: the stream found the task missing, emitted the error event
\* and has closed with the sentinel.
C11_Witness ==
    /\ sse_pc = "done"
    /\ sse_exit = "missing"
    /\ sse_event = "done"
    /\ sse_dones = 1

\* C11, witness of the other two ways out: the poll limit.
C11_WitnessLimit ==
    /\ sse_pc = "done"
    /\ sse_exit = "limit"
    /\ sse_dones = 1

\* The aggregator of the run has returned its final_matrix.
AggregatorReturned ==
    \/ "clause_locator" \in wf_next
    \/ Task("clause_locator", 0, 0) \in wf_tasks
    \/ wf = "end" /\ fan_calls.clause_extractor > 0

\* What the extractor workers of the run returned, as the aggregator left
\* the clause objects: leaf by leaf, in the order of the outline.
RECURSIVE ReturnedUpTo(_)
ReturnedUpTo(n) ==
    IF n = 0 THEN <<>>
    ELSE ReturnedUpTo(n - 1) \o normalize_clauses(returned[n])

\* The number of times a clause occurs in a list.
Count(c, cs) == Cardinality({i \in DOMAIN cs : cs[i] = c})

\* C12: once the aggregator has returned, final_matrix holds every clause
\* the extractor workers of the run returned, each as often as it was
\* returned, and nothing else: no clause is dropped, merged or duplicated,
\* whatever the clauses' texts.
C12_MatrixHoldsEveryClause ==
    AggregatorReturned =>
        LET all == ReturnedUpTo(MaxNodes)
        IN  /\ Len(final_matrix) = Len(all)
            /\ \A i \in DOMAIN all :
                    Count(all[i], final_matrix) = Count(all[i], all)

\* C12, witness: a finished run in which two different leaves returned
\* clauses of identical text, and final_matrix holds both.
C12_Witness ==
    /\ wf = "end"
    /\ \E m, n \in DOMAIN pageindex_document :
        /\ m # n
        /\ returned[m] # <<>> /\ returned[n] # <<>>
        /\ returned[m][1].original_text = returned[n][1].original_text
        /\ \E i, j \in DOMAIN final_matrix :
            /\ i # j
            /\ final_matrix[i] = normalize_clauses(returned[m])[1]
            /\ final_matrix[j] = normalize_clauses(returned[n])[1]

\* C13: final_matrix ascends by (section_id, matrix_id), and it is the
\* list the returned clauses alone determine (leaf by leaf in the order of
\* the outline), in whatever order the extractor workers completed.
C13_MatrixOrder ==
    AggregatorReturned =>
        /\ \A i, j \in DOMAIN final_matrix :
                i < j => key_lt(final_matrix[i], final_matrix[j])
        /\ final_matrix = ReturnedUpTo(MaxNodes)

\* C13, witness: a finished run whose workers completed in another order
\* than the order of the matrix.
C13_Witness ==
    /\ wf = "end"
    /\ Len(final_matrix) >= 3
    /\ clauses # final_matrix
    /\ \E i, j \in DOMAIN clauses :
            i < j /\ key_lt(clauses[j], clauses[i])

\* C14: no two clauses of final_matrix have the same matrix_id.
C14_MatrixIdsUnique ==
    \A i, j \in DOMAIN final_matrix :
        i # j => final_matrix[i].matrix_id # final_matrix[j].matrix_id

\* C14, witness: a matrix with two clauses of one section and clauses of
\* two sections.
C14_Witness ==
    /\ wf = "end"
    /\ \E i, j, k \in DOMAIN final_matrix :
        /\ i # j
        /\ final_matrix[i].section_id = final_matrix[j].section_id
        /\ final_matrix[i].section_id # final_matrix[k].section_id

\* The outline parser of the run has returned without a tree: it failed, or
\* it left pageindex_document None.
NoOutline ==
    /\ wf # "idle"
    /\ pc.structure_parser = NotRunning
    /\ pageindex_document = NoDocument

\* The nodes behind the first router.
Downstream ==
    {"text_filler", "clause_extractor", "clause_aggregator", "clause_locator"}

\* C15: in a run whose outline parser failed or returned no tree, no text
\* filler, clause extractor, aggregator or locator is ever invoked: none
\* is sent, triggered or running, and none has returned.
C15_NothingRunsWithoutOutline ==
    NoOutline =>
        /\ sent = {}
        /\ wf_sends = {}
        /\ wf_next \cap Downstream = {}
        /\ \A task \in wf_tasks : task.node \notin Downstream
        /\ filled = {} /\ extracted = {}
        /\ final_matrix = <<>>

\* C15, witness: a run that ended after the outline parser alone failed.
C15_Witness ==
    /\ wf = "end"
    /\ error_message = {"structure_parser"}
    /\ NoOutline

\* C16: normalizing a normalized title changes nothing:
\* normalize_title(normalize_title(x)) = normalize_title(x) for every x.
C16_NormalizeIdempotent ==
    nt_calls = 2 => twice = once

\* C17: every position GET /task/{task_id} returns for a completed task,
\* in the clause matrix, on the nodes of the document tree and on the
\* clauses nested in the nodes, is in page coordinates, none in the
\* extractor's normalized units.
C17_ResultInPageCoordinates ==
    rs_pc = "answered" =>
        /\ \A i \in DOMAIN rs_response.matrix :
                rs_response.matrix[i].boxes # <<>> =>
                    rs_response.matrix[i].unit = "points"
        /\ rs_response.document_tree.positions.boxes # <<>> =>
                rs_response.document_tree.positions.unit = "points"
        /\ \A i \in DOMAIN rs_response.document_tree.clauses :
                rs_response.document_tree.clauses[i].boxes # <<>> =>
                    rs_response.document_tree.clauses[i].unit = "points"

\* C18: in every persisted task row, whatever repository operations have
\* written its counters, total_requirements equals total_clauses.
C18_AliasInSync ==
    task_row.persisted => task_row.total_requirements = task_row.total_clauses

\* The workers: the tasks that fill or extract one outline node.
Workers == {"text_filler", "clause_extractor"}

\* The nodes a running worker writes.
WritingTo(task) ==
    IF task.node \in Workers THEN NodesWritten(pageindex_document, task.arg)
    ELSE {}

\* C19: at every moment each outline node has at most one writer: no two
\* workers running in the same superstep are assigned the same node or
\* write the same node, and every write a worker has made went to the node
\* it was assigned.
C19_OneWriterPerNode ==
    /\ \A t1, t2 \in wf_tasks :
            (t1 # t2 /\ t1.node \in Workers /\ t2.node \in Workers) =>
                /\ t1.arg # t2.arg
                /\ WritingTo(t1) \cap WritingTo(t2) = {}
    /\ \A w \in written : w.node = w.by.arg

\* C19, witness: two text fillers run side by side, one on a node and one
\* on its child, while a third has already written its node.
C19_Witness ==
    /\ written # {}
    /\ \E t1, t2 \in wf_tasks :
        /\ t1.node = "text_filler" /\ t2.node = "text_filler"
        /\ t2.arg \in nodes(pageindex_document, t1.arg)

\* C19, witness for the extractors: two clause extractors run side by
\* side after one has written its leaf.
C19_WitnessExtractors ==
    /\ \E w \in written : w.by.node = "clause_extractor"
    /\ \E t1, t2 \in wf_tasks :
        /\ t1 # t2
        /\ t1.node = "clause_extractor" /\ t2.node = "clause_extractor"

\* C20: no stage function lets an exception out: every invocation of a
\* stage function on any input state returns, and one whose parser, matcher
\* or model call raised returns its empty/default output.
C20_StagesNeverRaise ==
    stage # None =>
        /\ stage_result.outcome = "returned"
        /\ stage_state.body_raises => stage_result.output = "default"

\* C21: once the tracker updates issued so far have returned, the log
\* list of the task has at most _MAX_LOG_ENTRIES entries and holds exactly
\* the most recently recorded messages in the order they were recorded.
C21_LogsAreTheLatest ==
    (\A th \in Threads : lg_pc[th] = "idle") =>
        /\ Len(lg_logs) <= MAX_LOG_ENTRIES
        /\ lg_logs = LastN([i \in 1..lg_recorded |-> i], MAX_LOG_ENTRIES)

\* C22: when the relational write fails during a tracker create or update,
\* the call returns normally and the task's cache entry carries the
\* requested change.
C22_WriteFailureIsSwallowed ==
    (tk_call.wrote /\ ~tk_call.dbOk) =>
        /\ tk_call.outcome = "returned"
        /\ tk_cached
        /\ tk_call.op = "create" =>
              (tk_entry.status = "pending" /\ tk_entry.progress = 0)
        /\ tk_call.op = "update" =>
              /\ tk_call.status # None => tk_entry.status = tk_call.status
              /\ tk_call.progress # NoneP =>
                    tk_entry.progress = tk_call.progress
              /\ tk_call.message # None => tk_entry.message = tk_call.message

\* C22, witness: an update to completed whose relational write failed: the
\* cache entry says completed, the row does not.
C22_Witness ==
    /\ tk_call.op = "update" /\ tk_call.wrote /\ ~tk_call.dbOk
    /\ tk_call.status = "completed"
    /\ tk_entry.status = "completed"
    /\ tk_stored /\ tk_row.status # "completed"

\* C22, witness for create: the insert failed, the entry is there and the
\* row is not.
C22_WitnessCreate ==
    /\ tk_call.op = "create" /\ ~tk_call.dbOk
    /\ tk_cached /\ ~tk_stored

\* The attempts of the call for which a request was sent.
AttemptsMade == {sc_sent[i].attempt : i \in DOMAIN sc_sent}

\* The modes tried in an attempt, in the order of their requests.
ModesOf(a) ==
    LET idx == {i \in DOMAIN sc_sent : sc_sent[i].attempt = a}
    IN  [k \in 1..Cardinality(idx) |->
            sc_sent[CHOOSE i \in idx :
                        Cardinality({j \in idx : j <= i}) = k].mode]

\* C23: structured_completion makes at most max_retries attempts, each one
\* the native mode first and the JSON-mode fallback only after the native
\* mode raised; it returns the result of the first attempt that succeeds,
\* and when every attempt failed it raises the exception of the last one.
C23_RetryBudget ==
    /\ Cardinality(AttemptsMade) <= sc_max_retries
    /\ \A a \in AttemptsMade :
          ModesOf(a) \in {<<"native">>, <<"native", "fallback">>}
    /\ sc_pc = "returned" =>
          /\ sc_result.attempt = sc_attempt
          /\ sc_result.mode = sc_sent[Len(sc_sent)].mode
          /\ \A a \in AttemptsMade :
                a < sc_attempt => ModesOf(a) = <<"native", "fallback">>
    /\ (sc_pc = "raised" /\ AttemptsMade # {}) =>
          /\ Cardinality(AttemptsMade) = sc_max_retries
          /\ sc_exc = sc_caught
          /\ sc_exc.attempt = sc_max_retries - 1
          /\ sc_exc.kind \in FallbackErrors
          /\ sc_sent[Len(sc_sent)].attempt = sc_max_retries - 1

\* C23, witness: with max_retries = 3 the first two attempts failed in both
\* modes and the third returned from its fallback.
C23_Witness ==
    /\ sc_pc = "returned"
    /\ sc_max_retries = 3
    /\ sc_result = [attempt |-> 2, mode |-> "fallback"]

\* C23, witness for the raise: every attempt of three failed.
C23_WitnessRaised ==
    /\ sc_pc = "raised"
    /\ sc_max_retries = 3
    /\ Len(sc_sent) = 6

\* C30: structured_completion leaves the caller's message list and its
\* messages unchanged, so every request of the call carries the caller's
\* base prompt with at most one schema instruction (none in native mode).
C30_CallerMessagesUntouched ==
    /\ sc_caller_instr = 0
    /\ sc_caller_len = 2
    /\ \A i \in DOMAIN sc_sent :
          sc_sent[i].instr = IF sc_sent[i].mode = "fallback" THEN 1 ELSE 0

\* C24: for any interleaving of uploads of byte-identical content, at most
\* one task with that file hash is pending or running at any moment.
C24_OneUnfinishedTaskPerHash ==
    \A h \in Hashes : Cardinality(StillRunning(h)) <= 1

\* C26: the uploaded PDF, the extraction output directory and the debug
\* snapshots of a task are overwritten or deleted only by that task's own
\* run or deletion, never by the upload or the deletion of another task.
C26_FilesOfOtherTasksUntouched == fs_harm = {}

\* C25: whenever POST /analyze answers reused = true for a task that is not
\* completed, the background job of that task is executing its pipeline at
\* that moment.
C25_ReusedTaskIsExecuting ==
    [][(/\ last_response' # last_response
        /\ last_response'.reused
        /\ last_response'.task_id \in DOMAIN db_tasks
        /\ db_tasks[last_response'.task_id].status # "completed")
       => bg[last_response'.task_id] = "invoking"]_vars

\* C27: once every tracker update issued for the task has returned, and no
\* relational write having failed, the row's status and progress equal the
\* cache entry's.
C27_StoresAgreeWhenQuiet ==
    (\A th \in Threads : sy_pc[th] = "idle") =>
        /\ sy_row.status = sy_entry.status
        /\ sy_row.progress = sy_entry.progress

\* C28: a progress stream that leaves its loop because the task is completed
\* or failed has emitted a payload showing that status before the closing
\* event.  A pass that reads a terminal status leaves the loop, so the only
\* pass that can emit such a payload is the leaving one, and it emits one
\* exactly when the progress it reads differs from last_progress.
C28_TerminalStatusIsEmitted ==
    [][(/\ sse_pc = "poll"
        /\ sse_exit' = "terminal"
        /\ sse_pc' = AfterLoop("terminal"))
       => last_progress' # last_progress]_vars

\* C29: a download request for a task whose row is completed with a
\* persisted document tree is answered with the workbook, whether the cache
\* entry was written by the task's own job or rebuilt from the row.
C29_DownloadServesPersistedTree ==
    dl_response.persisted => dl_response.code = 200

====
